---- MODULE Spec2Model ----
(***************************************************************************)
(* Model of the Kannada text utilities: the hybrid PDF detector            *)
(* (modules/hybrid_pdf_detector.py) and the legacy-encoding normalizer     *)
(* (modules/legacy_kannada.py).                                            *)
(*                                                                         *)
(* A text is a sequence of Unicode code points (naturals).  Scores and     *)
(* confidences are kept in tenths (0.3 is 3): every score the code builds  *)
(* is a sum of 0.4, 0.2, 0.3 and 0.1, and every comparison it makes is     *)
(* against a multiple of 0.1, so the tenths decide each comparison the     *)
(* way the floating-point values do.                                       *)
(***************************************************************************)
EXTENDS Integers, Sequences, FiniteSets, TLC

VARIABLES
    text,       \* the text a text operation is applied to
    tpc,        \* position of the text scenario
    tout,       \* results of the text operations applied so far
    doc,        \* the document handed to analyze_pdf, with force_ocr
    pc,         \* position inside analyze_pdf
    basic_info, \* result of _get_basic_pdf_info
    text_results,     \* result of _extract_text_multiple_methods
    quality_analysis, \* result of _analyze_text_quality
    analysis,   \* the PDFAnalysis returned by analyze_pdf
    calls,      \* which internal steps analyze_pdf has run
    sampler,    \* the call of _get_sample_page_indices under way
    nin,        \* the arguments of the normalizer call under way
    npc,        \* position inside the normalizer call
    ntext,      \* the text the normalizer call is working on
    nlog,       \* the table rules applied, or the stages run, so far
    job,        \* the arguments and the environment of ocr_pdf_to_word
    opc,        \* position inside ocr_pdf_to_word
    use_google, \* the local use_google of ocr_pdf_to_word
    page_num,   \* the page the loop of ocr_pdf_to_word is at
    attempts,   \* the recognizer calls made for the current page
    raw_text,   \* page_text of ocr_pdf_to_word: the text recognized on the page
    pages,      \* what ocr_pdf_to_word has recorded for each page so far
    working,    \* the pages whose processed_img is alive
    counts,     \* total_pages, processed_pages and successful_pages
    full_text,  \* full_text of ocr_pdf_to_word, at the end the text file
    flash       \* what the request handler of app.py answers

vars == <<text, tpc, tout, doc, pc, basic_info, text_results,
          quality_analysis, analysis, calls, sampler, nin, npc, ntext, nlog,
          job, opc, use_google, page_num, attempts, raw_text, pages,
          working, counts, full_text, flash>>

textVars == <<text, tpc, tout>>
pdfVars == <<doc, pc, basic_info, text_results, quality_analysis, analysis,
            calls, sampler>>
normVars == <<nin, npc, ntext, nlog>>
ocrVars == <<job, opc, use_google, page_num, attempts, raw_text, pages,
            working, counts, full_text, flash>>

\* no normalizer call under way
IdleNorm == nin = <<>> /\ npc = "idle" /\ ntext = <<>> /\ nlog = <<>>

\* no ocr_pdf_to_word call under way
IdleOcr ==
    /\ job = <<>> /\ opc = "idle" /\ use_google = FALSE /\ page_num = 0
    /\ attempts = <<>> /\ raw_text = <<>> /\ pages = <<>>
    /\ working = {} /\ full_text = <<>> /\ flash = "none"
    /\ counts = [total_pages |-> 0, processed_pages |-> 0, successful_pages |-> 0]

----------------------------------------------------------------------------
(* Bounds *)

\* number of units a generated text is built from
MaxUnits == 3

\* largest page count of a generated document
MaxPages == 6

----------------------------------------------------------------------------
(* Characters *)

\* the code points the generated texts are written in
Ch == [ ka     |-> 3221,  \* U+0C95 KANNADA LETTER KA
        ga     |-> 3223,  \* U+0C97 KANNADA LETTER GA
        sign_i |-> 3263,  \* U+0CBF KANNADA VOWEL SIGN I
        sign_ii |-> 3264, \* U+0CC0 KANNADA VOWEL SIGN II = 0CBF 0CD5
        length |-> 3285,  \* U+0CD5 KANNADA LENGTH MARK
        grave  |-> 768,   \* U+0300 COMBINING GRAVE ACCENT (class 230)
        space  |-> 32,
        nl     |-> 10,
        zwnj   |-> 8204,  \* U+200C ZERO WIDTH NON-JOINER
        P      |-> 80,
        g      |-> 103,
        A      |-> 65,
        Agrave |-> 192 ]  \* U+00C0 = 0041 0300

InRange(c, lo, hi) == lo <= c /\ c <= hi

\* str.isspace / regex \s on the blocks the texts are drawn from
IsSpace(c) ==
    \/ InRange(c, 9, 13) \/ InRange(c, 28, 32)
    \/ c = 133 \/ c = 160 \/ InRange(c, 8192, 8202)

\* regex \w (alphanumeric or underscore) on Basic Latin, Latin-1,
\* combining diacriticals, Kannada and general punctuation
IsWord(c) ==
    \/ InRange(c, 48, 57) \/ InRange(c, 65, 90) \/ c = 95 \/ InRange(c, 97, 122)
    \/ c = 170 \/ InRange(c, 178, 179) \/ c = 181 \/ InRange(c, 185, 186)
    \/ InRange(c, 188, 190) \/ InRange(c, 192, 214) \/ InRange(c, 216, 246)
    \/ InRange(c, 248, 255)
    \/ c = 3200 \/ InRange(c, 3205, 3212) \/ InRange(c, 3214, 3216)
    \/ InRange(c, 3218, 3240) \/ InRange(c, 3242, 3251) \/ InRange(c, 3253, 3257)
    \/ c = 3261 \/ InRange(c, 3293, 3294) \/ InRange(c, 3296, 3297)
    \/ InRange(c, 3302, 3311) \/ InRange(c, 3313, 3314)

\* [A-Za-z]
IsAsciiLetter(c) == InRange(c, 65, 90) \/ InRange(c, 97, 122)

\* the characters '.,!?;:()-' that is_kannada_text skips
IsSkippedPunct(c) == c \in {46, 44, 33, 63, 59, 58, 40, 41, 45}

\* [.,!?;:]
IsSentencePunct(c) == c \in {46, 44, 33, 63, 59, 58}

\* KANNADA_UNICODE_RANGES: the Kannada block and ZWNJ/ZWJ
InKannadaRanges(c) == InRange(c, 3200, 3327) \/ InRange(c, 8204, 8205)

\* the regex class [U+0C85 - U+0CDE] (letter A to letter FA)
IsKannadaLetterClass(c) == InRange(c, 3205, 3294)

----------------------------------------------------------------------------
(* Sequence helpers *)

RECURSIVE FlattenRange(_, _, _)
\* concatenation of ss[lo], ..., ss[hi]
FlattenRange(ss, lo, hi) ==
    IF lo > hi THEN <<>>
    ELSE IF lo = hi THEN ss[lo]
    ELSE LET mid == (lo + hi) \div 2
         IN  FlattenRange(ss, lo, mid) \o FlattenRange(ss, mid + 1, hi)

Flatten(ss) == FlattenRange(ss, 1, Len(ss))

\* the characters of t that satisfy Keep, in order
Filter(t, Keep(_)) ==
    Flatten([i \in 1..Len(t) |-> IF Keep(t[i]) THEN <<t[i]>> ELSE <<>>])

CountIf(t, P(_)) == Cardinality({i \in 1..Len(t) : P(t[i])})

\* base repeated cyclically up to exactly n characters
Cyc(base, n) == [i \in 1..n |-> base[((i - 1) % Len(base)) + 1]]

\* str.strip() is empty
IsBlank(t) == \A i \in 1..Len(t) : IsSpace(t[i])

\* len(t.strip())
StrippedLen(t) ==
    IF IsBlank(t) THEN 0
    ELSE LET n == Len(t)
             first == CHOOSE i \in 1..n :
                         ~IsSpace(t[i]) /\ \A j \in 1..(i - 1) : IsSpace(t[j])
             last == CHOOSE i \in 1..n :
                         ~IsSpace(t[i]) /\ \A j \in (i + 1)..n : IsSpace(t[j])
         IN  last - first + 1

\* number of maximal runs of characters satisfying P: len(re.findall('[P]+', t))
CountRuns(t, P(_)) ==
    Cardinality({i \in 1..Len(t) : P(t[i]) /\ (i = 1 \/ ~P(t[i - 1]))})

\* number of maximal runs of at least k characters satisfying P:
\* len(re.findall('[P]{k,}', t))
CountLongRuns(t, P(_), k) ==
    Cardinality({i \in 1..Len(t) :
        /\ P(t[i]) /\ (i = 1 \/ ~P(t[i - 1]))
        /\ i + k - 1 <= Len(t)
        /\ \A d \in 1..(k - 1) : P(t[i + d])})

\* number of maximal runs of one repeated \w character, at least k long:
\* len(re.findall(r'(\w)\1{k-1,}', t))
CountRepeats(t, k) ==
    Cardinality({i \in 1..Len(t) :
        /\ IsWord(t[i]) /\ (i = 1 \/ t[i - 1] # t[i])
        /\ i + k - 1 <= Len(t)
        /\ \A d \in 1..(k - 1) : t[i + d] = t[i]})

----------------------------------------------------------------------------
(* modules/legacy_kannada.py *)

\* canonical decomposition of one character of the texts: U+00C0, and the
\* five Kannada vowel signs that have one
Decomposition(c) ==
    IF c = Ch.Agrave THEN <<Ch.A, Ch.grave>>
    ELSE IF c = Ch.sign_ii THEN <<Ch.sign_i, Ch.length>>
    ELSE IF c = 3271 THEN <<3270, 3285>>        \* U+0CC7 = 0CC6 0CD5
    ELSE IF c = 3272 THEN <<3270, 3286>>        \* U+0CC8 = 0CC6 0CD6
    ELSE IF c = 3274 THEN <<3270, 3266>>        \* U+0CCA = 0CC6 0CC2
    ELSE IF c = 3275 THEN <<3270, 3266, 3285>>  \* U+0CCB = 0CCA 0CD5
    ELSE <<c>>

\* primary composite of a starter and the character that follows it, or 0
Composite(a, b) ==
    IF a = Ch.A /\ b = Ch.grave THEN Ch.Agrave
    ELSE IF a = Ch.sign_i /\ b = Ch.length THEN Ch.sign_ii
    ELSE IF a = 3270 /\ b = 3285 THEN 3271
    ELSE IF a = 3270 /\ b = 3286 THEN 3272
    ELSE IF a = 3270 /\ b = 3266 THEN 3274
    ELSE IF a = 3274 /\ b = 3285 THEN 3275
    ELSE 0

\* one pass of canonical composition over adjacent pairs
ComposePairs(d) ==
    LET n == Len(d)
        absorbed(i) == i > 1 /\ Composite(d[i - 1], d[i]) # 0
        absorbs(i) == i < n /\ Composite(d[i], d[i + 1]) # 0
    IN  Flatten([i \in 1..n |->
            IF absorbed(i) THEN <<>>
            ELSE IF absorbs(i) THEN <<Composite(d[i], d[i + 1])>>
            ELSE <<d[i]>>])

\* unicodedata.normalize('NFC', t) on the texts' characters: canonical
\* decomposition, then canonical composition.  The other letters of Latin-1
\* that decompose are followed by no combining mark in the texts, so they
\* come back as they are.  A text that holds U+0300 holds no other character
\* of non-zero combining class, and the Kannada marks of non-zero class
\* (U+0CCD; U+0CBC is in no text) never meet a mark of lower class, so
\* canonical reordering moves nothing, and a character combines with the
\* last starter only when it directly follows it.  No first half of a
\* composing pair is the second half of another, so one pass composes every
\* pair; the second pass composes U+0CCA, made by the first, with U+0CD5.
NFC(t) ==
    ComposePairs(ComposePairs(Flatten([i \in 1..Len(t) |-> Decomposition(t[i])])))

\* the regex class of U+0300-036F, U+1AB0-1AFF and U+1DC0-1DFF
IsStrayCombiningMark(c) ==
    InRange(c, 768, 879) \/ InRange(c, 6832, 6911) \/ InRange(c, 7616, 7679)

NotStrayCombiningMark(c) == ~IsStrayCombiningMark(c)

normalize_unicode(t) ==
    IF t = <<>> THEN <<>>
    ELSE Filter(NFC(t), NotStrayCombiningMark)

is_kannada_text(t) ==
    IF IsBlank(t) THEN FALSE
    ELSE LET counted(c) == ~(IsSpace(c) \/ IsSkippedPunct(c))
             kannada(c) == counted(c) /\ InKannadaRanges(c)
             total_chars == CountIf(t, counted)
             kannada_chars == CountIf(t, kannada)
         IN  total_chars > 0 /\ 5 * kannada_chars > total_chars

\* t contains pat as a substring: pat in t
Contains(t, pat) ==
    \E i \in 1..(Len(t) - Len(pat) + 1) :
        \A k \in 1..Len(pat) : t[i + k - 1] = pat[k]

\* the strings of detect_legacy_encoding's strong_legacy_indicators
strong_legacy_indicators ==
    << <<65, 105, 192, 196>>, <<170, 192>>, <<163, 192>>, <<80, 192>>,
       <<103, 192>>, <<181, 192>>, <<184, 192>>, <<168, 115, 192>>,
       <<100, 196>>, <<122, 192>> >>

\* the strings of detect_legacy_encoding's ocr_artifacts
ocr_artifacts ==
    << <<77, 65, 3228>>, <<68, 86, 3223>>, <<3256, 219, 3233>>, <<3228, 221>>,
       <<68, 122, 3270>>, <<3266, 3262, 186>>, <<3244, 230, 3266>>,
       <<122, 115, 3262>>, <<3226, 122, 115>>, <<68, 3240, 65>> >>

\* how many strings of the list occur in t
CountPresent(t, list) ==
    Cardinality({k \in 1..Len(list) : Contains(t, list[k])})

\* number of Kannada words a text must exceed to count as proper Unicode
MinKannadaWords == 3

\* the word count detect_legacy_encoding compares: it is above
\* MinKannadaWords or not
HasKannadaWords(t) == CountRuns(t, IsKannadaLetterClass) > MinKannadaWords

\* lines 244-284 of detect_legacy_encoding: the marker, artifact and
\* character-composition tests
LegacyMarkersFound(t) ==
         LET legacy_count == CountPresent(t, strong_legacy_indicators)
             artifact_count == CountPresent(t, ocr_artifacts)
             nonspace(c) == ~IsSpace(c)
             nonascii(c) == c > 127
             total_chars == CountIf(t, nonspace)
         IN  IF legacy_count >= 2 THEN TRUE
             ELSE IF artifact_count >= 3 /\ ~is_kannada_text(t) THEN TRUE
             ELSE IF total_chars > 20
                     /\ 10 * CountIf(t, nonascii) > 7 * total_chars
                     /\ 5 * CountIf(t, IsKannadaLetterClass) < total_chars
                  THEN TRUE
             ELSE FALSE

\* detect_legacy_encoding without its guard for proper Kannada Unicode
detect_legacy_encoding_eager(t) ==
    IF t = <<>> THEN FALSE
    ELSE LegacyMarkersFound(t)

detect_legacy_encoding(t) ==
    IF t = <<>> THEN FALSE
    ELSE IF is_kannada_text(t) /\ HasKannadaWords(t) THEN FALSE
    ELSE LegacyMarkersFound(t)

\* the class [^ Kannada block, ZWNJ, ZWJ, \s, \w, .,!?;:()- ] of
\* validate_kannada_output
IsValidationArtifact(c) ==
    ~(\/ InRange(c, 3200, 3327) \/ InRange(c, 8204, 8205)
      \/ IsSpace(c) \/ IsWord(c) \/ IsSkippedPunct(c))

\* validate_kannada_output: the pair (ok, issues)
validate_kannada_output(t) ==
    IF IsBlank(t) THEN [ok |-> FALSE, issues |-> <<"Empty or whitespace-only text">>]
    ELSE LET i1 == IF ~is_kannada_text(t)
                   THEN <<"Insufficient Kannada characters detected">> ELSE <<>>
             i2 == IF 10 * CountIf(t, IsValidationArtifact) > Len(t)
                   THEN <<"Excessive non-Kannada artifacts detected">> ELSE <<>>
             i3 == IF 10 * CountIf(t, IsSentencePunct) > 3 * Len(t)
                   THEN <<"Excessive punctuation detected">> ELSE <<>>
             i4 == IF t # NFC(t)
                   THEN <<"Text not properly normalized">> ELSE <<>>
             issues == i1 \o i2 \o i3 \o i4
         IN  [ok |-> Len(issues) = 0, issues |-> issues]

----------------------------------------------------------------------------
(* modules/hybrid_pdf_detector.py: text quality *)

\* HybridPDFDetector thresholds
min_quality_score == 3
max_sample_pages == 5

\* the class [^ Kannada block, printable ASCII, Latin-1, \s ] of the first
\* ocr_artifact_patterns entry
IsForeignChar(c) ==
    ~(\/ InRange(c, 3200, 3327) \/ InRange(c, 32, 126)
      \/ InRange(c, 160, 255) \/ IsSpace(c))

\* re.findall(r'^[^\w\s]*$', t): one match when the text, up to one final
\* newline, holds neither word characters nor whitespace; none otherwise
CountSymbolOnly(t) ==
    LET n == Len(t)
        m == IF n > 0 /\ t[n] = Ch.nl THEN n - 1 ELSE n
    IN  IF \A i \in 1..m : ~IsWord(t[i]) /\ ~IsSpace(t[i]) THEN 1 ELSE 0

\* the sum over ocr_artifact_patterns of the number of matches
artifact_score(t) ==
    CountIf(t, IsForeignChar) + CountRepeats(t, 5) + CountSymbolOnly(t)
        + CountLongRuns(t, IsAsciiLetter, 20)

Min(a, b) == IF a <= b THEN a ELSE b
Max(a, b) == IF a >= b THEN a ELSE b

\* the weights _analyze_text_quality adds, in tenths
KannadaBonus(normalized_text) == IF is_kannada_text(normalized_text) THEN 4 ELSE 0

\* the length weight with its threshold ten times too high
LengthBonus_long(text_length) == IF text_length > 1000 THEN 2 ELSE 0

LengthBonus(text_length) == IF text_length > 100 THEN 2 ELSE 0

ArtifactBonus(score, text_length) ==
    IF 10 * score < Max(text_length, 1) THEN 3 ELSE 0

WordsBonus(normalized_text) ==
    IF CountRuns(normalized_text, IsKannadaLetterClass) > 10 THEN 1 ELSE 0

\* the early return of _analyze_text_quality for blank text
EmptyQuality ==
    [quality_score |-> 0, sample_text |-> <<>>, languages |-> {},
     notes |-> <<"No text extracted">>]

\* lines 375-418 of _analyze_text_quality: the scoring of a non-blank text
ScoreText(t) ==
         LET normalized_text == normalize_unicode(t)
             kannada == is_kannada_text(normalized_text)
             text_length == StrippedLen(normalized_text)
             low_artifacts == ArtifactBonus(artifact_score(normalized_text), text_length) > 0
             quality_score ==
                 KannadaBonus(normalized_text) + LengthBonus(text_length)
                   + ArtifactBonus(artifact_score(normalized_text), text_length)
                   + WordsBonus(normalized_text)
         IN  [quality_score |-> Min(quality_score, 10),
              sample_text |-> SubSeq(normalized_text, 1, Min(500, Len(normalized_text))),
              languages |-> IF kannada THEN {"kannada"} ELSE {},
              notes |->
                 (IF kannada THEN <<"Kannada text detected">>
                             ELSE <<"No Kannada text detected">>)
                 \o (IF text_length > 100 THEN <<"Substantial text length">> ELSE <<>>)
                 \o (IF low_artifacts THEN <<"Low artifact ratio">>
                                      ELSE <<"High artifact ratio">>)
                 \o (IF WordsBonus(normalized_text) > 0
                     THEN <<"Found Kannada words">> ELSE <<>>)]

\* _analyze_text_quality testing "not text" in place of "not text.strip()"
_analyze_text_quality_nostrip(t) ==
    IF t = <<>> THEN EmptyQuality
    ELSE ScoreText(t)

_analyze_text_quality(t) ==
    IF IsBlank(t) THEN EmptyQuality
    ELSE ScoreText(t)

----------------------------------------------------------------------------
(* modules/hybrid_pdf_detector.py: analyze_pdf *)

Methods == {"pymupdf", "pdfplumber", "pypdf2"}

RECURSIVE AddSteps(_, _, _, _, _)

\* the loop appending every i * step, taken or not
AddSteps_no_check(indices, i, remaining, step, total_pages) ==
    indices \o [k \in 1..(remaining - i + 1) |-> (i + k - 1) * step]

\* indices.append(idx) guarded by "idx not in indices and idx < total_pages",
\* for i = from .. remaining
AddSteps(indices, i, remaining, step, total_pages) ==
    IF i > remaining THEN indices
    ELSE LET idx == i * step
             taken == \E k \in 1..Len(indices) : indices[k] = idx
         IN  AddSteps(IF ~taken /\ idx < total_pages THEN Append(indices, idx)
                      ELSE indices,
                      i + 1, remaining, step, total_pages)

_get_sample_page_indices(total_pages, sample_count) ==
    IF total_pages <= sample_count THEN [i \in 1..total_pages |-> i - 1]
    ELSE LET i1 == IF sample_count >= 1 THEN <<0>> ELSE <<>>
             i2 == IF sample_count >= 2 THEN Append(i1, total_pages - 1) ELSE i1
             i3 == IF sample_count >= 3 THEN Append(i2, total_pages \div 2) ELSE i2
             remaining == sample_count - Len(i3)
             all == IF remaining > 0
                    THEN AddSteps(i3, 1, remaining,
                                  total_pages \div (remaining + 1), total_pages)
                    ELSE i3
         IN  SortSeq(all, LAMBDA a, b : a < b)

\* whether extraction method m opens the document
Opens(d, m) ==
    CASE m = "pymupdf" -> d.fitz_ok
      [] m = "pdfplumber" -> d.plumber_ok
      [] m = "pypdf2" -> d.pypdf2_ok

\* _extract_with_pymupdf, _extract_with_pdfplumber, _extract_with_pypdf2:
\* the text of the sampled pages on which method m finds text, each followed
\* by two newlines; a method whose parser fails returns nothing
ExtractWith(d, m, page_indices) ==
    IF ~Opens(d, m) THEN [text |-> <<>>, pages_with_text |-> 0]
    ELSE LET found == {k \in 1..Len(page_indices) :
                          /\ page_indices[k] < d.pages
                          /\ page_indices[k] \in d.text_pages
                          /\ m \in d.readers}
             n == Cardinality(found)
         IN  [text |-> Flatten([k \in 1..n |-> d.page_text \o <<Ch.nl, Ch.nl>>]),
              pages_with_text |-> n]

\* line 239: "if len(extracted_text) < 100", the test before method 2
NeedsPdfplumber(extracted_text) == Len(extracted_text) < 100

\* the test before method 3 with the threshold of method 2
NeedsPypdf2_100(extracted_text) == Len(extracted_text) < 100

\* line 248: "if len(extracted_text) < 50", the test before method 3
NeedsPypdf2(extracted_text) == Len(extracted_text) < 50

_extract_text_multiple_methods(d) ==
    LET total_pages == IF d.fitz_ok THEN d.pages ELSE 1
        sample_pages == Min(max_sample_pages, total_pages)
        page_indices == _get_sample_page_indices(total_pages, sample_pages)
        pymupdf_text == ExtractWith(d, "pymupdf", page_indices)
        got1 == ~IsBlank(pymupdf_text.text)
        text1 == IF got1 THEN pymupdf_text.text ELSE <<>>
        pages1 == IF got1 THEN pymupdf_text.pages_with_text ELSE 0
        run2 == NeedsPdfplumber(text1)
        plumber_text == ExtractWith(d, "pdfplumber", page_indices)
        got2 == run2 /\ ~IsBlank(plumber_text.text)
        text2 == IF got2 THEN text1 \o <<Ch.nl>> \o plumber_text.text ELSE text1
        pages2 == IF got2 THEN Max(pages1, plumber_text.pages_with_text) ELSE pages1
        run3 == NeedsPypdf2(text2)
        pypdf2_text == ExtractWith(d, "pypdf2", page_indices)
        got3 == run3 /\ ~IsBlank(pypdf2_text.text)
        text3 == IF got3 THEN text2 \o <<Ch.nl>> \o pypdf2_text.text ELSE text2
        pages3 == IF got3 THEN Max(pages2, pypdf2_text.pages_with_text) ELSE pages2
    IN  [extracted_text |-> text3,
         has_text_layer |-> got1 \/ got2 \/ got3,
         pages_with_text |-> pages3,
         sampled_pages |-> Len(page_indices),
         total_pages |-> total_pages,
         methods_run |-> {"pymupdf"} \cup (IF run2 THEN {"pdfplumber"} ELSE {})
                             \cup (IF run3 THEN {"pypdf2"} ELSE {}),
         notes |-> (IF got1 THEN <<"PyMuPDF extracted text">> ELSE <<>>)
                   \o (IF got2 THEN <<"pdfplumber extracted text">> ELSE <<>>)
                   \o (IF got3 THEN <<"PyPDF2 extracted text">> ELSE <<>>)]

\* the poor-quality branch with its two outcomes exchanged
PoorQualityClass_swapped(tr) ==
    IF 10 * tr.pages_with_text < 3 * Max(tr.total_pages, 1)
    THEN [type |-> "hybrid", needs_ocr |-> TRUE, confidence |-> 7,
          notes |-> <<"Poor quality text with good coverage - likely scanned with bad OCR">>]
    ELSE [type |-> "scanned", needs_ocr |-> TRUE, confidence |-> 8,
          notes |-> <<"Poor text coverage - likely scanned PDF">>]

\* the branch of _classify_pdf_type for a text layer of poor quality
PoorQualityClass(tr) ==
    IF 10 * tr.pages_with_text < 3 * Max(tr.total_pages, 1)
    THEN [type |-> "scanned", needs_ocr |-> TRUE, confidence |-> 8,
          notes |-> <<"Poor text coverage - likely scanned PDF">>]
    ELSE [type |-> "hybrid", needs_ocr |-> TRUE, confidence |-> 7,
          notes |-> <<"Poor quality text with good coverage - likely scanned with bad OCR">>]

\* the good-quality branch trusting a text layer without Kannada content
GoodQualityClass_skip_ocr(qa) ==
    IF "kannada" \in qa.languages
    THEN [type |-> "digital", needs_ocr |-> FALSE, confidence |-> qa.quality_score,
          notes |-> <<"Good quality Kannada text detected">>]
    ELSE [type |-> "hybrid", needs_ocr |-> FALSE, confidence |-> 6,
          notes |-> <<"Text layer exists but no Kannada content - likely OCR artifacts">>]

\* the branch of _classify_pdf_type for a text layer of good quality
GoodQualityClass(qa) ==
    IF "kannada" \in qa.languages
    THEN [type |-> "digital", needs_ocr |-> FALSE, confidence |-> qa.quality_score,
          notes |-> <<"Good quality Kannada text detected">>]
    ELSE [type |-> "hybrid", needs_ocr |-> TRUE, confidence |-> 6,
          notes |-> <<"Text layer exists but no Kannada content - likely OCR artifacts">>]

\* the branch of _classify_pdf_type without a text layer
NoTextLayerClass ==
    [type |-> "scanned", needs_ocr |-> TRUE, confidence |-> 9,
     notes |-> <<"No text layer detected">>]

\* _classify_pdf_type deciding on the quality score before the text layer
_classify_pdf_type_quality_first(bi, tr, qa) ==
    IF qa.quality_score >= min_quality_score THEN GoodQualityClass(qa)
    ELSE PoorQualityClass(tr)

_classify_pdf_type(bi, tr, qa) ==
    IF ~tr.has_text_layer THEN NoTextLayerClass
    ELSE IF qa.quality_score >= min_quality_score THEN GoodQualityClass(qa)
    ELSE PoorQualityClass(tr)

\* the forced analysis reporting what an extraction pass finds
_create_forced_ocr_analysis_sampling(d) ==
    [pdf_type |-> "forced_ocr",
     has_text_layer |-> _extract_text_multiple_methods(d).has_text_layer,
     text_quality_score |-> 0,
     total_pages |-> IF d.fitz_ok THEN d.pages ELSE 1,
     pages_with_text |-> _extract_text_multiple_methods(d).pages_with_text,
     sample_text |-> <<>>, detected_languages |-> {},
     needs_ocr |-> TRUE, confidence |-> 10,
     analysis_notes |-> <<"Force OCR mode enabled by user">>]

\* the PDFAnalysis analyze_pdf returns when force_ocr is set
_create_forced_ocr_analysis(d) ==
    [pdf_type |-> "forced_ocr", has_text_layer |-> FALSE, text_quality_score |-> 0,
     total_pages |-> IF d.fitz_ok THEN d.pages ELSE 1,
     pages_with_text |-> 0, sample_text |-> <<>>, detected_languages |-> {},
     needs_ocr |-> TRUE, confidence |-> 10,
     analysis_notes |-> <<"Force OCR mode enabled by user">>]

\* the fallback analysis trusting the unreadable document
FallbackAnalysis_no_ocr ==
    [pdf_type |-> "unknown", has_text_layer |-> FALSE, text_quality_score |-> 0,
     total_pages |-> 1, pages_with_text |-> 0, sample_text |-> <<>>,
     detected_languages |-> {}, needs_ocr |-> FALSE, confidence |-> 5,
     analysis_notes |-> <<"Analysis failed", "Defaulting to OCR for safety">>]

\* the PDFAnalysis the except branch of analyze_pdf returns
FallbackAnalysis ==
    [pdf_type |-> "unknown", has_text_layer |-> FALSE, text_quality_score |-> 0,
     total_pages |-> 1, pages_with_text |-> 0, sample_text |-> <<>>,
     detected_languages |-> {}, needs_ocr |-> TRUE, confidence |-> 5,
     analysis_notes |-> <<"Analysis failed", "Defaulting to OCR for safety">>]

\* the result of _get_basic_pdf_info when one of the two readers opens the file
BasicInfo(d) ==
    IF d.fitz_ok
    THEN [page_count |-> d.pages,
          notes |-> IF d.scanner THEN <<"Scanner software detected">> ELSE <<>>]
    ELSE [page_count |-> d.pages, notes |-> <<"Used PyPDF2 fallback">>]

\* the texts a page of a generated document carries
PageTexts ==
    { Cyc(<<Ch.ka, Ch.ga, Ch.sign_i, Ch.space>>, 30),
      Cyc(<<Ch.ka, Ch.ga, Ch.sign_i, Ch.space>>, 498),
      Cyc(<<Ch.ka, Ch.ka, Ch.ka, Ch.ka, Ch.ka, Ch.ga, Ch.sign_i>>, 498),
      Cyc(<<Ch.g>>, 30),
      Cyc(<<Ch.g, Ch.g, Ch.g, Ch.g, Ch.g, Ch.P, Ch.Agrave>>, 30) }

\* the sets of pages of an n-page document that carry a text layer
TextPageSets(n) == { {}, {0}, 0..(n - 1) }

\* the sets of extraction methods that find the text of the text layer
ReaderSets == { {}, {"pymupdf"}, {"pdfplumber", "pypdf2"}, Methods }

\* the generated documents of n pages whose text pages carry page text pt: a
\* page text longer than a sample page of 100 characters appears on the first
\* page only
DocsWith(n, pt) ==
    { [force_ocr |-> f, fitz_ok |-> o[1], plumber_ok |-> o[2],
       pypdf2_ok |-> o[3], scanner |-> sc, pages |-> n,
       text_pages |-> tp, page_text |-> pt, readers |-> rs] :
        f \in BOOLEAN, o \in [1..3 -> BOOLEAN], sc \in BOOLEAN,
        rs \in ReaderSets,
        tp \in { x \in TextPageSets(n) : Len(pt) > 100 => x \subseteq {0} } }

\* the page count of the one long document, beyond the short ones
LongDocPages == 17

Docs ==
    UNION { DocsWith(n, pt) : n \in (1..MaxPages) \cup {LongDocPages},
                              pt \in PageTexts }

\* the results of the text scenario before any operation ran
NoResults ==
    [quality |-> EmptyQuality, ok |-> FALSE, issues |-> <<>>, legacy |-> FALSE,
     normalized |-> <<>>, renormalized |-> <<>>]

NoBasicInfo == [page_count |-> 0, notes |-> <<>>]

NoTextResults ==
    [extracted_text |-> <<>>, has_text_layer |-> FALSE, pages_with_text |-> 0,
     sampled_pages |-> 0, total_pages |-> 0, methods_run |-> {}, notes |-> <<>>]

NoAnalysis ==
    [pdf_type |-> "none", has_text_layer |-> FALSE, text_quality_score |-> 0,
     total_pages |-> 0, pages_with_text |-> 0, sample_text |-> <<>>,
     detected_languages |-> {}, needs_ocr |-> FALSE, confidence |-> 0,
     analysis_notes |-> <<>>]

NoDoc ==
    [force_ocr |-> FALSE, fitz_ok |-> FALSE, plumber_ok |-> FALSE,
     pypdf2_ok |-> FALSE, scanner |-> FALSE, pages |-> 1, text_pages |-> {},
     page_text |-> <<>>, readers |-> {}]

\* no call of _get_sample_page_indices under way
NoSample == [pc |-> "idle", total_pages |-> 0, sample_count |-> 0, indices |-> <<>>]

\* the three ways analyze_pdf leaves its first step: the forced return, a
\* reader opening the file, and the exception of _get_basic_pdf_info that
\* the except branch catches
TakesForced == pc = "start" /\ doc.force_ocr
ReaderOpens == pc = "start" /\ ~doc.force_ocr /\ (doc.fitz_ok \/ doc.pypdf2_ok)
ReadersFail == pc = "start" /\ ~doc.force_ocr /\ ~doc.fitz_ok /\ ~doc.pypdf2_ok

\* analyze_pdf with force_ocr: lines 85-87
ForcedOcr ==
    /\ TakesForced
    /\ analysis' = _create_forced_ocr_analysis(doc)
    /\ pc' = "done"
    /\ UNCHANGED <<doc, basic_info, text_results, quality_analysis, calls, sampler, textVars, normVars, ocrVars>>

\* step 1 of analyze_pdf, one of the two readers opening the file
GetBasicPdfInfo ==
    /\ ReaderOpens
    /\ basic_info' = BasicInfo(doc)
    /\ calls' = calls \cup {"basic_info"}
    /\ pc' = "extract"
    /\ UNCHANGED <<doc, text_results, quality_analysis, analysis, sampler, textVars, normVars, ocrVars>>

\* step 1 of analyze_pdf raising because both readers fail, and the except
\* branch of analyze_pdf that catches it
AnalysisFailed ==
    /\ ReadersFail
    /\ analysis' = FallbackAnalysis
    /\ calls' = calls \cup {"basic_info"}
    /\ pc' = "done"
    /\ UNCHANGED <<doc, basic_info, text_results, quality_analysis, sampler, textVars, normVars, ocrVars>>

\* step 2 of analyze_pdf
ExtractText ==
    /\ pc = "extract"
    /\ text_results' = _extract_text_multiple_methods(doc)
    /\ calls' = calls \cup {"extract"}
    /\ pc' = "quality"
    /\ UNCHANGED <<doc, basic_info, quality_analysis, analysis, sampler, textVars, normVars, ocrVars>>

\* step 3 of analyze_pdf
AnalyzeQuality ==
    /\ pc = "quality"
    /\ quality_analysis' = _analyze_text_quality(text_results.extracted_text)
    /\ calls' = calls \cup {"quality"}
    /\ pc' = "classify"
    /\ UNCHANGED <<doc, basic_info, text_results, analysis, sampler, textVars, normVars, ocrVars>>

\* step 4 of analyze_pdf and the PDFAnalysis it builds
ClassifyPdfType ==
    /\ pc = "classify"
    /\ LET classification ==
               _classify_pdf_type(basic_info, text_results, quality_analysis)
       IN  analysis' =
             [pdf_type |-> classification.type,
              has_text_layer |-> text_results.has_text_layer,
              text_quality_score |-> quality_analysis.quality_score,
              total_pages |-> basic_info.page_count,
              pages_with_text |-> text_results.pages_with_text,
              sample_text |-> SubSeq(quality_analysis.sample_text, 1,
                                     Min(200, Len(quality_analysis.sample_text))),
              detected_languages |-> quality_analysis.languages,
              needs_ocr |-> classification.needs_ocr,
              confidence |-> classification.confidence,
              analysis_notes |-> basic_info.notes \o text_results.notes
                                   \o quality_analysis.notes]
    /\ calls' = calls \cup {"classify"}
    /\ pc' = "done"
    /\ UNCHANGED <<doc, basic_info, text_results, quality_analysis, sampler, textVars, normVars, ocrVars>>

Init ==
    /\ doc \in Docs
    /\ pc = "start"
    /\ basic_info = NoBasicInfo
    /\ text_results = NoTextResults
    /\ quality_analysis = EmptyQuality
    /\ analysis = NoAnalysis
    /\ calls = {}
    /\ sampler = NoSample
    /\ text = <<>> /\ tpc = "idle" /\ tout = NoResults
    /\ IdleNorm /\ IdleOcr

Next ==
    \/ ForcedOcr
    \/ GetBasicPdfInfo
    \/ AnalysisFailed
    \/ ExtractText
    \/ AnalyzeQuality
    \/ ClassifyPdfType

Spec == Init /\ [][Next]_vars

----------------------------------------------------------------------------
(* Text scenario: one text, and the text operations applied to it *)

\* the units generated texts are built from
Units ==
    << <<Ch.ka>>, <<Ch.ga, Ch.sign_i>>, <<Ch.length>>, <<Ch.grave>>,
       <<Ch.space>>, <<Ch.P, Ch.Agrave>>, <<Ch.g, Ch.Agrave>>, <<Ch.zwnj>>,
       <<Ch.ka, Ch.ka, Ch.ka, Ch.ka, Ch.ka>>, <<Ch.g>> >>

\* lengths a text is repeated up to (0: the units as they are)
TextLens == {0, 101}

UnitSeqs == UNION {[1..n -> 1..Len(Units)] : n \in 0..MaxUnits}

MakeText(us, len) ==
    LET base == Flatten([i \in 1..Len(us) |-> Units[us[i]]])
    IN  IF len = 0 \/ base = <<>> THEN base ELSE Cyc(base, len)

IdlePdf ==
    /\ doc = NoDoc /\ pc = "idle"
    /\ basic_info = NoBasicInfo /\ text_results = NoTextResults
    /\ quality_analysis = EmptyQuality /\ analysis = NoAnalysis
    /\ calls = {}
    /\ sampler = NoSample

InitText ==
    /\ \E us \in UnitSeqs : \E len \in TextLens : text = MakeText(us, len)
    /\ tpc = "input"
    /\ tout = NoResults
    /\ IdlePdf /\ IdleNorm /\ IdleOcr

AnalyzeTextQuality ==
    /\ tpc = "input"
    /\ tout' = [tout EXCEPT !.quality = _analyze_text_quality(text)]
    /\ tpc' = "scored"
    /\ UNCHANGED <<text, pdfVars, normVars, ocrVars>>

NormalizeUnicode ==
    /\ tpc = "input"
    /\ tout' = [tout EXCEPT !.normalized = normalize_unicode(text)]
    /\ tpc' = "normalized"
    /\ UNCHANGED <<text, pdfVars, normVars, ocrVars>>

NormalizeUnicodeAgain ==
    /\ tpc = "normalized"
    /\ tout' = [tout EXCEPT !.renormalized = normalize_unicode(tout.normalized)]
    /\ tpc' = "renormalized"
    /\ UNCHANGED <<text, pdfVars, normVars, ocrVars>>

ValidateKannadaOutput ==
    /\ tpc = "input"
    /\ LET v == validate_kannada_output(text)
       IN  tout' = [tout EXCEPT !.ok = v.ok, !.issues = v.issues]
    /\ tpc' = "validated"
    /\ UNCHANGED <<text, pdfVars, normVars, ocrVars>>

DetectLegacyEncoding ==
    /\ tpc = "validated"
    /\ tout' = [tout EXCEPT !.legacy = detect_legacy_encoding(text)]
    /\ tpc' = "detected"
    /\ UNCHANGED <<text, pdfVars, normVars, ocrVars>>

NextText ==
    \/ AnalyzeTextQuality
    \/ NormalizeUnicode
    \/ NormalizeUnicodeAgain
    \/ ValidateKannadaOutput
    \/ DetectLegacyEncoding

SpecText == InitText /\ [][NextText]_vars

----------------------------------------------------------------------------
(* Detector scenario: the text operations on texts made of legacy markers,
   OCR artifacts, Kannada words and padding *)

\* largest number of Kannada words in a text of the detector scenario
MaxDetectWords == 4

\* what the texts are made of: strong legacy indicators, OCR artifacts, a
\* Kannada word, an ASCII letter and a Latin-1 letter as padding
DetectMarkers == << <<170, 192>>, <<163, 192>> >>
DetectArtifacts == << <<77, 65, 3228>>, <<68, 86, 3223>>, <<68, 3240, 65>> >>
DetectWord == <<Ch.ka, Ch.ga, Ch.sign_i, Ch.space>>

DetectText(m, a, w, pad, hi) ==
    Flatten([i \in 1..m |-> DetectMarkers[i]])
    \o Flatten([i \in 1..a |-> DetectArtifacts[i]])
    \o Flatten([i \in 1..w |-> DetectWord])
    \o [i \in 1..pad |-> 102]
    \o [i \in 1..hi |-> 219]

InitDetect ==
    /\ \E m \in 0..Len(DetectMarkers) : \E a \in 0..Len(DetectArtifacts) :
       \E w \in 0..MaxDetectWords : \E pad \in {0, 6, 51} : \E hi \in {0, 25} :
           text = DetectText(m, a, w, pad, hi)
    /\ tpc = "input"
    /\ tout = NoResults
    /\ IdlePdf /\ IdleNorm /\ IdleOcr

SpecDetect == InitDetect /\ [][NextText]_vars

----------------------------------------------------------------------------
(* Properties of analyze_pdf (specification Spec) *)

Returned == pc = "done"
Classified == pc = "done" /\ "classify" \in calls
Unreadable == ~doc.fitz_ok /\ ~doc.pypdf2_ok

\* the analysis is the safe fallback: OCR needed, confidence 0.5, a note
IsSafeFallback ==
    /\ analysis.needs_ocr
    /\ analysis.confidence = 5
    /\ Len(analysis.analysis_notes) > 0

\* analyze_pdf never stops short of returning: at every position before the
\* return one of its steps applies (no exception is left uncaught), and it
\* ends with an analysis
AlwaysReturns ==
    /\ pc = "start" => TakesForced \/ ReaderOpens \/ ReadersFail
    /\ pc \in {"start", "extract", "quality", "classify", "done"}
    /\ Returned => analysis # NoAnalysis

\* C1 as stated: analyze_pdf never raises, and for a document that no
\* structural parser can read the returned analysis needs OCR, has confidence
\* 0.5 and carries a note, for every input
C1_Original ==
    /\ AlwaysReturns
    /\ Returned /\ Unreadable => IsSafeFallback

\* C1 as amended: analyze_pdf never raises, and for a document that no
\* structural parser can read the returned analysis needs OCR, has confidence
\* 0.5 and carries a note, when force_ocr is not set
C1_FailOpen ==
    /\ AlwaysReturns
    /\ Returned /\ Unreadable /\ ~doc.force_ocr => IsSafeFallback

C1_Witness ==
    Returned /\ Unreadable /\ ~doc.force_ocr /\ ~doc.plumber_ok /\ IsSafeFallback

\* the classifications of the specification, "forced" being the code's 'forced_ocr'
Classifications == {"digital", "scanned", "hybrid", "empty", "forced_ocr"}

\* C2: every analysis analyze_pdf returns has a classification among
\* digital, scanned, hybrid, empty and forced
C2_ClassificationInSet == Returned => analysis.pdf_type \in Classifications

\* C3: a returned analysis needs OCR exactly when its classification is not
\* digital
C3_NeedsOcrUnlessDigital ==
    Returned => (analysis.needs_ocr <=> analysis.pdf_type # "digital")

C3_Witness ==
    Returned /\ analysis.pdf_type = "hybrid" /\ analysis.confidence = 6
             /\ analysis.needs_ocr

\* the page indices _extract_text_multiple_methods samples for document d
SampledIndices(d) ==
    LET total_pages == IF d.fitz_ok THEN d.pages ELSE 1
    IN  _get_sample_page_indices(total_pages, Min(max_sample_pages, total_pages))

\* no extraction method yields non-blank text on any sampled page
NoMethodYieldsText(d) ==
    \A m \in Methods : IsBlank(ExtractWith(d, m, SampledIndices(d)).text)

\* C4: a document on which no extraction method finds text is classified
\* scanned with confidence 0.9 and needs OCR, whatever its metadata
C4_NoTextLayerIsScanned ==
    Classified /\ NoMethodYieldsText(doc) =>
        /\ analysis.pdf_type = "scanned"
        /\ analysis.confidence = 9
        /\ analysis.needs_ocr

C4_Witness ==
    /\ Classified /\ NoMethodYieldsText(doc)
    /\ doc.scanner /\ doc.fitz_ok /\ doc.text_pages # {}
    /\ analysis.pdf_type = "scanned"

\* pages with text below 30% of the pages the extraction counted
LowCoverage == 10 * analysis.pages_with_text < 3 * Max(text_results.total_pages, 1)

\* C5: with a text layer the classification follows the decision table on
\* quality score, detected script and page coverage
C5_DecisionTable ==
    Classified /\ analysis.has_text_layer =>
        LET q == analysis.text_quality_score
            k == "kannada" \in analysis.detected_languages
            r == <<analysis.pdf_type, analysis.confidence>>
        IN  /\ q >= 3 /\ k => r = <<"digital", q>>
            /\ q >= 3 /\ ~k => r = <<"hybrid", 6>>
            /\ q < 3 /\ LowCoverage => r = <<"scanned", 8>>
            /\ q < 3 /\ ~LowCoverage => r = <<"hybrid", 7>>

C5_Witness ==
    /\ Classified /\ analysis.has_text_layer
    /\ analysis.text_quality_score < 3 /\ LowCoverage
    /\ analysis.pdf_type = "scanned" /\ analysis.confidence = 8

\* C6: with force_ocr the analysis is forced with confidence 1.0 and needs
\* OCR, and no sampling, extraction or scoring has run
C6_ForcedShortCircuit ==
    Returned /\ doc.force_ocr =>
        /\ analysis.pdf_type = "forced_ocr"
        /\ analysis.confidence = 10
        /\ analysis.needs_ocr
        /\ analysis.text_quality_score = 0
        /\ analysis.pages_with_text = 0
        /\ analysis.sample_text = <<>>
        /\ ~analysis.has_text_layer
        /\ calls = {}
        /\ text_results = NoTextResults
        /\ quality_analysis = EmptyQuality

C6_Witness ==
    /\ Returned /\ doc.force_ocr /\ analysis.pdf_type = "forced_ocr"
    /\ ~NoMethodYieldsText(doc)

\* characters of the Kannada block
InKannadaBlock(c) == InRange(c, 3200, 3327)

\* scenario B: the sampled text has 500 characters, over 95% of them Kannada
ScenarioB ==
    /\ Len(text_results.extracted_text) = 500
    /\ 100 * CountIf(text_results.extracted_text, InKannadaBlock) > 95 * 500

\* artifact matches below 10% of the length of the normalized sampled text
FewArtifacts ==
    LET n == normalize_unicode(text_results.extracted_text)
    IN  10 * artifact_score(n) < Max(StrippedLen(n), 1)

\* C8 as stated: a document whose sampled text is over 95% Kannada and 500
\* characters long scores at least 0.9 and is classified digital
C8_Original ==
    Classified /\ ScenarioB =>
        analysis.text_quality_score >= 9 /\ analysis.pdf_type = "digital"

\* C8 as amended: such a document is classified digital with a score of at
\* least 0.6, and of at least 0.9 when its artifact matches stay below 10%
C8_ScenarioB ==
    Classified /\ ScenarioB =>
        /\ analysis.pdf_type = "digital"
        /\ analysis.text_quality_score >= 6
        /\ FewArtifacts => analysis.text_quality_score >= 9

C8_Witness ==
    /\ Classified /\ ScenarioB /\ ~FewArtifacts
    /\ analysis.pdf_type = "digital" /\ analysis.text_quality_score = 6

----------------------------------------------------------------------------
(* Properties of the text operations (specification SpecText) *)

\* C7: the quality score lies in [0,1], and a blank text scores 0 with the
\* single note "No text extracted"
C7_ScoreBounded ==
    tpc = "scored" =>
        /\ tout.quality.quality_score \in 0..10
        /\ IsBlank(text) =>
              /\ tout.quality.quality_score = 0
              /\ tout.quality.notes = <<"No text extracted">>

C7_Witness ==
    /\ tpc = "scored" /\ IsBlank(text) /\ Len(text) > 0
    /\ tout.quality.quality_score = 0

\* C9: normalize_unicode applied to its own result returns that result
C9_Idempotent ==
    tpc = "renormalized" => tout.renormalized = tout.normalized

\* C10 as stated: a text that passes validate_kannada_output is never
\* detected as legacy
C10_Original == tpc = "detected" /\ tout.ok => ~tout.legacy

\* C10 as amended: a text that passes validate_kannada_output and has more
\* than three Kannada words is never detected as legacy
C10_ValidNotLegacy ==
    tpc = "detected" /\ tout.ok /\ HasKannadaWords(text) => ~tout.legacy

C10_Witness ==
    /\ tpc = "detected" /\ tout.ok /\ HasKannadaWords(text)
    /\ CountPresent(text, strong_legacy_indicators) >= 2
    /\ ~tout.legacy

----------------------------------------------------------------------------
(* modules/legacy_kannada.py: the substitution tables and the pattern rules *)

\* the legacy-font table as the dict holds it: one <<key, value>> pair of
\* code-point sequences per key, in insertion order (a key written twice
\* keeps its first position and its last value)
LEGACY_TO_UNICODE == <<
    <<<<65, 105, 192, 196>>, <<3206>>>>,
    <<<<170, 192>>, <<3205>>>>,
    <<<<69, 103, 192>>, <<3207>>>>,
    <<<<69, 103, 192, 196>>, <<3208>>>>,
    <<<<71, 118, 192, 219>>, <<3209>>>>,
    <<<<71, 118, 192, 219, 196>>, <<3210>>>>,
    <<<<70>>, <<3214>>>>,
    <<<<165, 192>>, <<3215>>>>,
    <<<<65, 105, 201, 198>>, <<3216>>>>,
    <<<<65, 105, 192, 105, 193>>, <<3218>>>>,
    <<<<65, 105, 192, 105, 193, 196>>, <<3219>>>>,
    <<<<65, 105, 192, 105, 239>>, <<3220>>>>,
    <<<<163, 192>>, <<3240>>>>,
    <<<<80, 192>>, <<3233>>>>,
    <<<<103, 192>>, <<3223>>>>,
    <<<<181, 192>>, <<3246>>>>,
    <<<<122, 192>>, <<3228>>>>,
    <<<<100, 196>>, <<3236>>>>,
    <<<<184, 192>>, <<3256>>>>,
    <<<<168, 115, 192>>, <<3257>>>>,
    <<<<174>>, <<3242>>>>,
    <<<<67>>, <<3226>>>>,
    <<<<114>>, <<3248>>>>,
    <<<<175, 192>>, <<3242>>>>,
    <<<<167>>, <<3250>>>>,
    <<<<170, 192, 105, 193>>, <<3247>>>>,
    <<<<170, 192, 196>>, <<3253>>>>,
    <<<<178>>, <<3247>>>>,
    <<<<162>>, <<3222>>>>,
    <<<<164>>, <<3224>>>>,
    <<<<165>>, <<3225>>>>,
    <<<<166>>, <<3227>>>>,
    <<<<168>>, <<3229>>>>,
    <<<<169>>, <<3230>>>>,
    <<<<170>>, <<3231>>>>,
    <<<<171>>, <<3232>>>>,
    <<<<172>>, <<3234>>>>,
    <<<<173>>, <<3235>>>>,
    <<<<175>>, <<3243>>>>,
    <<<<176>>, <<3245>>>>,
    <<<<177>>, <<3246>>>>,
    <<<<179>>, <<3248>>>>,
    <<<<180>>, <<3250>>>>,
    <<<<181>>, <<3253>>>>,
    <<<<182>>, <<3254>>>>,
    <<<<183>>, <<3255>>>>,
    <<<<184>>, <<3256>>>>,
    <<<<185>>, <<3257>>>>,
    <<<<186>>, <<3251>>>>,
    <<<<187>>, <<3294>>>>,
    <<<<192>>, <<3262>>>>,
    <<<<193>>, <<3263>>>>,
    <<<<194>>, <<3264>>>>,
    <<<<195>>, <<3265>>>>,
    <<<<196>>, <<3266>>>>,
    <<<<197>>, <<3267>>>>,
    <<<<198>>, <<3268>>>>,
    <<<<199>>, <<3270>>>>,
    <<<<200>>, <<3271>>>>,
    <<<<201>>, <<3272>>>>,
    <<<<202>>, <<3274>>>>,
    <<<<203>>, <<3275>>>>,
    <<<<204>>, <<3276>>>>,
    <<<<205>>, <<3277>>>>,
    <<<<77, 65, 3228>>, <<3246, 3228>>>>,
    <<<<3228, 65>>, <<3228>>>>,
    <<<<186, 3262>>, <<3256, 3262>>>>,
    <<<<3253, 3206>>, <<3253>>>>,
    <<<<3256, 219, 3233, 85>>, <<3256, 3202, 3233>>>>,
    <<<<3262, 188, 3262>>, <<3262, 3238, 3262>>>>,
    <<<<3250, 85>>, <<3250>>>>,
    <<<<3264, 82>>, <<3264, 3248>>>>,
    <<<<229, 3253, 65>>, <<3262, 3253>>>>,
    <<<<230, 3206>>, <<3270>>>>,
    <<<<3226, 120>>, <<3226>>>>,
    <<<<3262, 240>>, <<3262, 3236>>>>,
    <<<<68, 86, 3223>>, <<3238, 3277, 3253, 3263, 3223>>>>,
    <<<<3244, 230, 3266>>, <<3244, 3274>>>>,
    <<<<3228, 221, 3223>>, <<3228, 3277, 3230, 3223>>>>,
    <<<<193, 3253, 3206>>, <<3205, 3253>>>>,
    <<<<229, 3240>>, <<3262, 3240>>>>,
    <<<<3253, 228>>, <<3253>>>>,
    <<<<3223, 3250>>, <<3223, 3250>>>>,
    <<<<3270, 3270>>, <<3270>>>>,
    <<<<3246, 239>>, <<3246>>>>,
    <<<<110, 232>>, <<3240, 3270>>>>,
    <<<<3238, 213, 3223>>, <<3238, 3262, 3223>>>>,
    <<<<3256, 3264>>, <<3256, 3264>>>>,
    <<<<3223, 3205, 3256>>, <<3223, 3256>>>>,
    <<<<115, 193, 3246>>, <<3256, 3246>>>>,
    <<<<3236, 3228, 232>>, <<3236, 3228, 3270>>>>,
    <<<<193, 3228>>, <<3205, 3228>>>>,
    <<<<3223, 3215, 3248>>, <<3223, 3248>>>>,
    <<<<68, 3262, 3206>>, <<3238, 3262>>>>,
    <<<<68, 3240, 65>>, <<3238, 3240>>>>,
    <<<<3253, 3262, 3223>>, <<3253, 3262, 3223>>>>,
    <<<<3244, 3233, 235, 3236>>, <<3244, 3233, 3236>>>>,
    <<<<69, 193, 3256>>, <<3207, 3256>>>>,
    <<<<3270, 3206, 3264>>, <<3270, 3264>>>>,
    <<<<3253, 3262, 219, 3270>>, <<3253, 3262, 3270>>>>,
    <<<<3266, 3253>>, <<3266, 3253>>>>,
    <<<<3262, 3223, 85, 3262>>, <<3262, 3223, 3262>>>>,
    <<<<3253, 3206, 3205, 3223>>, <<3253, 3205, 3223>>>>,
    <<<<3270, 86, 3240>>, <<3270, 3240>>>>,
    <<<<229, 207, 3264>>, <<3262, 3264>>>>,
    <<<<85, 193, 86>>, <<3238, 3263>>>>,
    <<<<3223, 3205, 185>>, <<3223>>>>,
    <<<<3222, 193, 65, 3233>>, <<3222, 3233>>>>,
    <<<<68, 122, 3270>>, <<3238, 3263>>>>,
    <<<<3266, 3262, 186>>, <<3266, 3256>>>>,
    <<<<3270, 3265, 3223>>, <<3270, 3223>>>>,
    <<<<3248, 185, 3253>>, <<3248, 3253>>>>,
    <<<<3262, 3264>>, <<3262>>>>,
    <<<<3263, 3214>>, <<3207>>>>,
    <<<<3246, 3206, 170>>, <<3246>>>>,
    <<<<193, 3223>>, <<3205, 3223>>>>,
    <<<<3247, 3240, 3228, 65>>, <<3247, 3240, 3228>>>>,
    <<<<113, 3262>>, <<3223, 3262>>>>,
    <<<<3233, 3274>>, <<3233, 3274>>>>,
    <<<<193, 86>>, <<>>>>,
    <<<<3264, 223>>, <<3264>>>>,
    <<<<3262, 188>>, <<3262, 3238>>>>,
    <<<<3270, 189>>, <<3270>>>>,
    <<<<122, 3270>>, <<3228, 3270>>>>,
    <<<<3228, 221>>, <<3228, 3277, 3230>>>>,
    <<<<3221, 232>>, <<3221, 3270>>>>,
    <<<<122, 3236>>, <<3228, 3236>>>>,
    <<<<193, 90>>, <<3205>>>>,
    <<<<3270, 85>>, <<3270>>>>,
    <<<<229, 207>>, <<3262>>>>,
    <<<<3248, 185>>, <<3248>>>>,
    <<<<170, 193>>, <<>>>>,
    <<<<221, 3266>>, <<3266>>>>,
    <<<<170, 3270>>, <<3270>>>>,
    <<<<3205, 240>>, <<3205, 3236>>>>,
    <<<<252, 193>>, <<>>>>,
    <<<<230, 198>>, <<3270>>>>,
    <<<<197, 122>>, <<>>>>,
    <<<<3270, 65>>, <<3270>>>>,
    <<<<229, 81>>, <<3262>>>>,
    <<<<219>>, <<>>>>,
    <<<<3256, 233>>, <<3256, 3270>>>>,
    <<<<65, 3270>>, <<3270>>>>,
    <<<<230, 3266>>, <<3274>>>>,
    <<<<3265, 3266>>, <<3266>>>>,
    <<<<65, 3270, 220>>, <<3270>>>>,
    <<<<3256, 65>>, <<3256>>>>,
    <<<<87, 3262>>, <<3253, 3262>>>>,
    <<<<80, 3270>>, <<3242, 3270>>>>,
    <<<<3274, 3233>>, <<3274, 3233>>>>,
    <<<<188, 3262>>, <<3238, 3262>>>>,
    <<<<3264, 185>>, <<3264>>>>,
    <<<<3215, 3274>>, <<3215>>>>,
    <<<<3270, 86>>, <<3270>>>>,
    <<<<3262, 3223, 85>>, <<3262, 3223>>>>,
    <<<<3266, 185>>, <<3266>>>>,
    <<<<3262, 219>>, <<3262>>>>,
    <<<<3264, 219>>, <<3264>>>>,
    <<<<3262, 189>>, <<3262>>>>,
    <<<<3250, 85, 3270>>, <<3250, 3270>>>>,
    <<<<3276>>, <<3276>>>>,
    <<<<3215, 230, 3233>>, <<3215, 3233>>>>,
    <<<<3265, 65, 113, 3262>>, <<3265, 3223, 3262>>>>,
    <<<<193, 3205, 240, 3238, 3233>>, <<3205, 3236, 3238, 3233>>>>,
    <<<<3226, 252, 193, 230, 3206, 85, 3262, 188, 3262>>, <<3226, 3270, 3238, 3262>>>>,
    <<<<3240, 3264, 223>>, <<3240, 3264>>>>,
    <<<<85, 3262>>, <<3238, 3262>>>>,
    <<<<3253, 185>>, <<3253>>>>,
    <<<<3247>>, <<3247>>>>,
    <<<<3240, 229>>, <<3240, 3262>>>>,
    <<<<3253>>, <<3253>>>>,
    <<<<3264, 82, 229, 3253, 65, 3253, 230, 3206, 3205, 3223>>, <<3264, 3248, 3262, 3253, 3253, 3270, 3205, 3223>>>>,
    <<<<3393>>, <<3265>>>>,
    <<<<3226, 120, 3262, 240, 3256, 3205, 3205, 3223>>, <<3226, 3262, 3236, 3256, 3205, 3205, 3223>>>>
>>

\* the OCR-confusion table, in insertion order
OCR_CORRECTIONS == <<
    <<<<48>>, <<3302>>>>,
    <<<<49>>, <<3303>>>>,
    <<<<50>>, <<3304>>>>,
    <<<<51>>, <<3305>>>>,
    <<<<52>>, <<3306>>>>,
    <<<<53>>, <<3307>>>>,
    <<<<54>>, <<3308>>>>,
    <<<<55>>, <<3309>>>>,
    <<<<56>>, <<3310>>>>,
    <<<<57>>, <<3311>>>>,
    <<<<111>>, <<3274>>>>,
    <<<<79>>, <<3218>>>>,
    <<<<101>>, <<3270>>>>,
    <<<<117>>, <<3265>>>>,
    <<<<105>>, <<3263>>>>,
    <<<<97>>, <<3205>>>>,
    <<<<124>>, <<3250, 3277>>>>,
    <<<<108>>, <<3250>>>>,
    <<<<73>>, <<3207>>>>,
    <<<<83>>, <<3256>>>>,
    <<<<109>>, <<3246>>>>,
    <<<<110>>, <<3240>>>>,
    <<<<114>>, <<3248>>>>,
    <<<<116>>, <<3236>>>>,
    <<<<100>>, <<3238>>>>,
    <<<<112>>, <<3242>>>>,
    <<<<98>>, <<3244>>>>,
    <<<<107>>, <<3221>>>>,
    <<<<103>>, <<3223>>>>,
    <<<<106>>, <<3228>>>>,
    <<<<99>>, <<3226>>>>,
    <<<<104>>, <<3257>>>>,
    <<<<121>>, <<3247>>>>,
    <<<<118>>, <<3253>>>>,
    <<<<119>>, <<3253>>>>,
    <<<<77, 65, 3228>>, <<3246, 3228>>>>,
    <<<<68, 86, 3223>>, <<3238, 3277, 3253, 3263, 3223>>>>,
    <<<<3244, 230, 3266>>, <<3244, 3274>>>>,
    <<<<3228, 221, 3223>>, <<3228, 3277, 3230, 3223>>>>,
    <<<<3238, 213, 3223>>, <<3238, 3262, 3223>>>>,
    <<<<3256, 219, 3233>>, <<3256, 3202, 3233>>>>,
    <<<<122, 115, 3262>>, <<3256, 3262>>>>,
    <<<<3226, 122, 115>>, <<3226, 3256>>>>,
    <<<<68, 3240, 65>>, <<3238, 3240>>>>,
    <<<<3244, 3233, 235, 3236>>, <<3244, 3233, 3236>>>>,
    <<<<69, 193, 3256>>, <<3207, 3256>>>>,
    <<<<3223, 3215, 3248>>, <<3223, 3248>>>>,
    <<<<3222, 193, 65>>, <<3222>>>>,
    <<<<68, 122, 3270>>, <<3238, 3263>>>>,
    <<<<3266, 3262, 186>>, <<3266, 3256>>>>,
    <<<<3248, 185, 3253>>, <<3248, 3253>>>>,
    <<<<193>>, <<>>>>,
    <<<<223>>, <<>>>>,
    <<<<188>>, <<3238>>>>,
    <<<<189>>, <<>>>>,
    <<<<185>>, <<>>>>,
    <<<<219>>, <<>>>>,
    <<<<221>>, <<>>>>,
    <<<<230>>, <<>>>>,
    <<<<252>>, <<>>>>,
    <<<<240>>, <<3236>>>>,
    <<<<232>>, <<3270>>>>,
    <<<<229>>, <<3262>>>>,
    <<<<235>>, <<>>>>,
    <<<<81>>, <<>>>>,
    <<<<90>>, <<>>>>,
    <<<<88>>, <<>>>>,
    <<<<86>>, <<>>>>,
    <<<<65>>, <<>>>>,
    <<<<85>>, <<>>>>
>>

\* s.replace(k, v): every non-overlapping occurrence of k, from the left
RECURSIVE ReplaceFrom(_, _, _, _)
ReplaceFrom(t, k, v, i) ==
    IF i + Len(k) - 1 > Len(t) THEN SubSeq(t, i, Len(t))
    ELSE IF SubSeq(t, i, i + Len(k) - 1) = k
         THEN v \o ReplaceFrom(t, k, v, i + Len(k))
         ELSE <<t[i]>> \o ReplaceFrom(t, k, v, i + 1)

\* s.replace(k, v, 1): the first occurrence only
Replace_once(t, k, v) ==
    LET hits == {i \in 1..(Len(t) - Len(k) + 1) : SubSeq(t, i, i + Len(k) - 1) = k}
    IN  IF hits = {} THEN t
        ELSE LET i == CHOOSE h \in hits : \A g \in hits : h <= g
             IN  SubSeq(t, 1, i - 1) \o v \o SubSeq(t, i + Len(k), Len(t))

Replace(t, k, v) == ReplaceFrom(t, k, v, 1)

\* the longest key of a table
MaxKeyLen(tbl) ==
    CHOOSE m \in {Len(tbl[i][1]) : i \in 1..Len(tbl)} :
        \A i \in 1..Len(tbl) : Len(tbl[i][1]) <= m

\* the table in the order the loop would take without the sort
SortedByKeyLength_unsorted(tbl) == tbl

\* sorted(tbl.items(), key=lambda x: -len(x[0])): longest keys first, and,
\* the sort being stable, keys of one length in the order of the table
SortedByKeyLength(tbl) ==
    LET m == MaxKeyLen(tbl)
        OfLen(l) == SelectSeq(tbl, LAMBDA e : Len(e[1]) = l)
    IN  Flatten([d \in 1..m |-> OfLen(m + 1 - d)])

\* the rules in the order convert_legacy_to_unicode tries them
LegacyRules == SortedByKeyLength(LEGACY_TO_UNICODE)

\* the rules in the order fix_ocr_errors tries them
OcrRules == SortedByKeyLength(OCR_CORRECTIONS)

\* one iteration of the loop: if k in result: result = result.replace(k, v)
ApplyRule(t, rule) ==
    IF Contains(t, rule[1]) THEN Replace(t, rule[1], rule[2]) ELSE t

\* the loop over rules lo..hi; the text the first half leaves is bound
\* before the second half starts on it
RECURSIVE ApplyRulesRange(_, _, _, _)
ApplyRulesRange(t, rules, lo, hi) ==
    IF lo > hi THEN t
    ELSE IF lo = hi THEN ApplyRule(t, rules[lo])
    ELSE LET mid == (lo + hi) \div 2
         IN  CHOOSE r \in {ApplyRulesRange(h, rules, mid + 1, hi) :
                               h \in {ApplyRulesRange(t, rules, lo, mid)}} : TRUE

ApplyRules(t, rules) == ApplyRulesRange(t, rules, 1, Len(rules))

\* the first rule after rule i whose key occurs in t, or 0: the next
\* iteration of the loop that changes anything
NextRule(t, rules, i) ==
    LET hits == {j \in (i + 1)..Len(rules) : Contains(t, rules[j][1])}
    IN  IF hits = {} THEN 0
        ELSE CHOOSE j \in hits : \A h \in hits : j <= h

\* the regex classes of LEGACY_PATTERNS: U+0C95-0CB9 and U+0CE6-0CEF
Consonants == 3221..3257
KannadaDigits == 3302..3311

\* LEGACY_PATTERNS, in order.  A "seq" rule matches one character of each
\* set of items in a row, between the assertions pre and post ("b" is \b);
\* its replacement tmpl copies matched character k for -k and writes any
\* other number as a character.  A "run" rule matches two or more of the
\* one character c and writes one.
SeqRule(pre, items, post, tmpl) ==
    [kind |-> "seq", pre |-> pre, items |-> items, post |-> post, tmpl |-> tmpl, c |-> 0]
RunRule(c) ==
    [kind |-> "run", pre |-> "", items |-> <<{c}, {c}>>, post |-> "", tmpl |-> <<c>>, c |-> c]

LEGACY_PATTERNS == <<
    SeqRule("", <<Consonants, {65}>>, "", <<-1>>),
    SeqRule("", <<Consonants, {3262}, {65}>>, "", <<-1, 3262>>),
    SeqRule("", <<Consonants, {3270}, {65}>>, "", <<-1, 3270>>),
    SeqRule("", <<Consonants, {3264}, {65}>>, "", <<-1, 3264>>),
    SeqRule("", <<Consonants, {3266}, {65}>>, "", <<-1, 3266>>),
    SeqRule("", <<KannadaDigits, {65}>>, "", <<-1>>),
    SeqRule("", <<KannadaDigits, {3262}>>, "", <<-1>>),
    RunRule(3262),
    RunRule(3270),
    RunRule(3264),
    RunRule(3266),
    SeqRule("", <<Consonants, {3206}, Consonants>>, "", <<-1, 32, -3>>),
    SeqRule("", <<Consonants, {85}, Consonants>>, "", <<-1, 32, -3>>),
    SeqRule("", <<Consonants, {193}, Consonants>>, "", <<-1, 32, -3>>),
    SeqRule("b", <<{65}, Consonants>>, "", <<-2>>),
    SeqRule("", <<Consonants, {65}>>, "b", <<-1>>),
    SeqRule("b", <<{193}>>, "", <<>>),
    SeqRule("", <<{193}>>, "b", <<>>)
>>

\* \b holds between t[p - 1] and t[p]: exactly one of them is a \w character
Boundary(t, p) ==
    LET w(q) == q >= 1 /\ q <= Len(t) /\ IsWord(t[q])
    IN  w(p - 1) # w(p)

\* length of the match of rule r at position i of t, or 0
MatchLen(t, r, i) ==
    LET n == Len(r.items)
        fits == /\ i + n - 1 <= Len(t)
                /\ \A k \in 1..n : t[i + k - 1] \in r.items[k]
                /\ r.pre = "b" => Boundary(t, i)
                /\ r.post = "b" => Boundary(t, i + n)
    IN  IF ~fits THEN 0
        ELSE IF r.kind = "seq" THEN n
        ELSE CHOOSE l \in 2..(Len(t) - i + 1) :
                /\ \A k \in 0..(l - 1) : t[i + k] = r.c
                /\ (i + l > Len(t) \/ t[i + l] # r.c)

\* re.sub(pattern, replacement, t): the matches are taken from the left,
\* each search starting where the last match ended
RECURSIVE SubFrom(_, _, _)
SubFrom(t, r, i) ==
    IF i > Len(t) THEN <<>>
    ELSE LET l == MatchLen(t, r, i)
         IN  IF l = 0 THEN <<t[i]>> \o SubFrom(t, r, i + 1)
             ELSE [k \in 1..Len(r.tmpl) |->
                      IF r.tmpl[k] < 0 THEN t[i - r.tmpl[k] - 1] ELSE r.tmpl[k]]
                  \o SubFrom(t, r, i + l)

Sub(t, r) == SubFrom(t, r, 1)

\* the loop over LEGACY_PATTERNS from rule i on
RECURSIVE ApplyPatternsFrom(_, _)
ApplyPatternsFrom(t, i) ==
    IF i > Len(LEGACY_PATTERNS) THEN t
    ELSE CHOOSE r \in {ApplyPatternsFrom(h, i + 1) :
                          h \in {Sub(t, LEGACY_PATTERNS[i])}} : TRUE

apply_pattern_conversions(t) ==
    IF t = <<>> THEN <<>> ELSE ApplyPatternsFrom(t, 1)

\* the exact mappings of convert_legacy_to_unicode: lines 205-210
ExactMappings(t) == ApplyRules(t, LegacyRules)

convert_legacy_to_unicode(t) ==
    IF t = <<>> THEN <<>> ELSE apply_pattern_conversions(ExactMappings(t))

fix_ocr_errors(t) ==
    IF t = <<>> THEN <<>> ELSE ApplyRules(t, OcrRules)

----------------------------------------------------------------------------
(* modules/legacy_kannada.py: clean_ocr_artifacts and post_process_kannada_text *)

\* the regex classes U+0C95-0CDE and U+0CBE-0CCC of clean_ocr_artifacts
KannadaLetters == 3221..3294
VowelSigns == 3262..3276

\* [.,:;!?]
IsolatedPunct == {46, 44, 58, 59, 33, 63}

\* artifacts_to_remove
artifacts_to_remove == {193, 223, 188, 189, 185, 219, 221, 230, 252, 240, 229, 235, 81, 90, 88}

\* re.sub(r'\s+', ' ', t): each run of whitespace becomes one space
CollapseSpace(t) ==
    Flatten([i \in 1..Len(t) |->
        IF ~IsSpace(t[i]) THEN <<t[i]>>
        ELSE IF i > 1 /\ IsSpace(t[i - 1]) THEN <<>>
        ELSE <<Ch.space>>])

\* t.strip()
Strip(t) ==
    IF IsBlank(t) THEN <<>>
    ELSE LET n == Len(t)
             first == CHOOSE i \in 1..n :
                         ~IsSpace(t[i]) /\ \A j \in 1..(i - 1) : IsSpace(t[j])
             last == CHOOSE i \in 1..n :
                         ~IsSpace(t[i]) /\ \A j \in (i + 1)..n : IsSpace(t[j])
         IN  SubSeq(t, first, last)

NotArtifactToRemove(c) == c \notin artifacts_to_remove
NotValidationArtifact(c) == ~IsValidationArtifact(c)

\* the value of e handed to F: e is worked out once, before F starts on it
Then(e, F(_)) == CHOOSE r \in {F(h) : h \in {e}} : TRUE

\* clean_ocr_artifacts: lines 177-198.  After the first substitution every
\* run of whitespace is one space, so \s+ of the second matches one space.
clean_ocr_artifacts(t) ==
    IF t = <<>> THEN <<>>
    ELSE
    Then(CollapseSpace(t), LAMBDA t1 :
    Then(Sub(t1, SeqRule("", <<{Ch.space}, IsolatedPunct, {Ch.space}>>, "", <<Ch.space>>)), LAMBDA t2 :
    Then(Sub(t2, SeqRule("", <<KannadaLetters, KannadaLetters, VowelSigns>>, "", <<-1, Ch.space, -2, -3>>)), LAMBDA t3 :
    Then(Filter(t3, NotArtifactToRemove), LAMBDA t4 :
    Then(Filter(t4, NotValidationArtifact), LAMBDA t5 :
    Then(Sub(t5, SeqRule("", <<KannadaLetters, KannadaDigits>>, "", <<-1, Ch.space, -2>>)), LAMBDA t6 :
    Then(Sub(t6, SeqRule("", <<KannadaDigits, KannadaLetters>>, "", <<-1, Ch.space, -2>>)), LAMBDA t7 :
    Strip(t7))))))))

\* re.sub(r'\s+', ' ', t).strip(): steps 5 and 6 of post_process_kannada_text
FinalCleanup(t) == Strip(CollapseSpace(t))

\* step 2 of post_process_kannada_text: lines 295-298
LegacyConversion(t) ==
    Then(convert_legacy_to_unicode(t), LAMBDA c : apply_pattern_conversions(c))

\* steps 3 to 5: lines 301-307
CleanAndNormalize(t) ==
    Then(clean_ocr_artifacts(t), LAMBDA c :
    Then(normalize_unicode(c), LAMBDA n : FinalCleanup(n)))

\* the test of step 6 without the test of the length
NeedsForcedConversion_no_length(t) == ~is_kannada_text(t)

\* step 6 runs: the text is still not Kannada and is longer than 10
NeedsForcedConversion(t) == ~is_kannada_text(t) /\ Len(t) > 10

post_process_kannada_text(t, is_legacy) ==
    IF t = <<>> THEN <<>>
    ELSE
    Then(fix_ocr_errors(t), LAMBDA t1 :
    Then(IF is_legacy \/ detect_legacy_encoding(t1) THEN LegacyConversion(t1) ELSE t1, LAMBDA t2 :
    Then(CleanAndNormalize(t2), LAMBDA t5 :
    IF NeedsForcedConversion(t5)
    THEN Then(LegacyConversion(t5), LAMBDA t6 : CleanAndNormalize(t6))
    ELSE t5)))

----------------------------------------------------------------------------
(* Substitution scenario: one call of convert_legacy_to_unicode or of
   fix_ocr_errors on a text written as a row of table keys *)

\* number of keys a generated legacy text is made of
MaxKeys == 3

\* the keys the legacy texts are written with: the four keys of
\* tests/test_legacy_kannada.py, then keys that overlap other keys
SubstKeys == <<
    <<170, 192>>,  \* U+00AA U+00C0
    <<163, 192>>,  \* U+00A3 U+00C0
    <<80, 192>>,  \* P U+00C0
    <<65, 105, 192, 196>>,  \* A i U+00C0 U+00C4
    <<170>>,  \* U+00AA
    <<193, 86>>,  \* U+00C1 V
    <<170, 192, 196>>,  \* U+00AA U+00C0 U+00C4
    <<77, 65, 3228>>   \* M A U+0C9C
>>

IdleText == text = <<>> /\ tpc = "idle" /\ tout = NoResults

\* the text of test_simple_conversion, as keys of SubstKeys
TestedCase == <<1, 2, 3, 4>>

KeySeqs == UNION {[1..n -> 1..Len(SubstKeys)] : n \in 0..MaxKeys} \cup {TestedCase}

\* the text written with the keys ks
KeyText(ks) == Flatten([i \in 1..Len(ks) |-> SubstKeys[ks[i]]])

\* the rules the call under way loops over
RulesOf(fn) ==
    IF fn = "convert_legacy_to_unicode" THEN LegacyRules ELSE OcrRules

\* the last rule the loop applied, or 0
LastRule == IF nlog = <<>> THEN 0 ELSE nlog[Len(nlog)]

InitSubst ==
    /\ \E ks \in KeySeqs :
        \E fn \in {"convert_legacy_to_unicode", "fix_ocr_errors"} :
            /\ nin = [fn |-> fn, keys |-> ks, text |-> KeyText(ks)]
            /\ ntext = KeyText(ks)
    /\ npc = "rules"
    /\ nlog = <<>>
    /\ IdleText /\ IdlePdf /\ IdleOcr

\* if not text: return ""
ReturnEmpty ==
    /\ npc = "rules" /\ nin.text = <<>>
    /\ npc' = "done"
    /\ UNCHANGED <<nin, ntext, nlog, textVars, pdfVars, ocrVars>>

\* the next iteration of the loop whose key occurs in the text
ApplyNextRule ==
    /\ npc = "rules" /\ nin.text # <<>>
    /\ \E j \in {NextRule(ntext, RulesOf(nin.fn), LastRule)} :
           /\ j # 0
           /\ ntext' = ApplyRule(ntext, RulesOf(nin.fn)[j])
           /\ nlog' = Append(nlog, j)
    /\ UNCHANGED <<nin, npc, textVars, pdfVars, ocrVars>>

\* the loop ends: no later key occurs in the text
RulesDone ==
    /\ npc = "rules" /\ nin.text # <<>>
    /\ NextRule(ntext, RulesOf(nin.fn), LastRule) = 0
    /\ npc' = IF nin.fn = "convert_legacy_to_unicode" THEN "patterns" ELSE "done"
    /\ UNCHANGED <<nin, ntext, nlog, textVars, pdfVars, ocrVars>>

\* result = apply_pattern_conversions(result); return result
ApplyPatternConversions ==
    /\ npc = "patterns"
    /\ ntext' = apply_pattern_conversions(ntext)
    /\ npc' = "done"
    /\ UNCHANGED <<nin, nlog, textVars, pdfVars, ocrVars>>

NextSubst ==
    \/ ReturnEmpty
    \/ ApplyNextRule
    \/ RulesDone
    \/ ApplyPatternConversions

SpecSubst == InitSubst /\ [][NextSubst]_vars

----------------------------------------------------------------------------
(* Sampler scenario: one call of _get_sample_page_indices as
   _extract_text_multiple_methods makes it *)

\* largest page count handed to the sampler
MaxSampleTotal == 60

InitSample ==
    /\ \E n \in 1..MaxSampleTotal :
        sampler = [pc |-> "call", total_pages |-> n,
                   sample_count |-> Min(max_sample_pages, n), indices |-> <<>>]
    /\ doc = NoDoc /\ pc = "idle"
    /\ basic_info = NoBasicInfo /\ text_results = NoTextResults
    /\ quality_analysis = EmptyQuality /\ analysis = NoAnalysis
    /\ calls = {}
    /\ IdleText /\ IdleNorm /\ IdleOcr

\* lines 226-227 and 264-287
GetSamplePageIndices ==
    /\ sampler.pc = "call"
    /\ sampler' = [sampler EXCEPT
           !.pc = "done",
           !.indices = _get_sample_page_indices(sampler.total_pages,
                                                sampler.sample_count)]
    /\ UNCHANGED <<doc, pc, basic_info, text_results, quality_analysis,
                   analysis, calls, textVars, normVars, ocrVars>>

NextSample == GetSamplePageIndices

SpecSample == InitSample /\ [][NextSample]_vars

----------------------------------------------------------------------------
(* Pipeline scenario: one call of post_process_kannada_text, stage by stage *)

\* number of units a text handed to the pipeline is made of
MaxNormUnits == 3

\* the units the texts are written with: two legacy markers, a Kannada
\* word, Latin letters no table has, an OCR artifact, digits, a letter with
\* characters that clean_ocr_artifacts removes
NormUnits == <<
    <<170, 192>>,
    <<163, 192>>,
    <<Ch.ka, Ch.ga, Ch.sign_i, Ch.space>>,
    <<102, 113, 115, 120, 122, 32, 102, 113, 115, 120, 122, 32>>,
    <<77, 65, 3228>>,
    <<49, 50, 51, 52, 53, 54, 55, 56, 57, 48, 49>>,
    <<102, 81, 90, 88>> >>

NormTexts ==
    {Flatten([i \in 1..Len(ks) |-> NormUnits[ks[i]]]) :
        ks \in UNION {[1..n -> 1..Len(NormUnits)] : n \in 0..MaxNormUnits}}

InitNorm ==
    /\ \E t \in NormTexts : \E hint \in BOOLEAN :
        /\ nin = [fn |-> "post_process_kannada_text", text |-> t, is_legacy |-> hint]
        /\ ntext = t
    /\ npc = "start"
    /\ nlog = <<>>
    /\ IdleText /\ IdlePdf /\ IdleOcr

\* the test of step 2 with the table applied to every text
LegacyDetected_always(is_legacy, t) == TRUE

\* the test of step 2: line 295
LegacyDetected(is_legacy, t) == is_legacy \/ detect_legacy_encoding(t)

\* the passes through steps 3 to 5 made so far
Passes == Len(SelectSeq(nlog, LAMBDA s : s = "final_cleanup"))

\* lines 288-289: if not text: return ""
ReturnEmptyText ==
    /\ npc = "start" /\ ntext = <<>>
    /\ npc' = "done"
    /\ UNCHANGED <<nin, ntext, nlog, textVars, pdfVars, ocrVars>>

\* step 1, line 292, and the test of step 2, line 295
StepFixOcrErrors ==
    /\ npc = "start" /\ ntext # <<>>
    /\ \E t1 \in {fix_ocr_errors(ntext)} :
        /\ ntext' = t1
        /\ npc' = IF LegacyDetected(nin.is_legacy, t1) THEN "convert" ELSE "clean"
    /\ nlog' = Append(nlog, "fix_ocr_errors")
    /\ UNCHANGED <<nin, textVars, pdfVars, ocrVars>>

\* lines 296 and 312
StepConvertLegacy ==
    /\ npc = "convert"
    /\ ntext' = convert_legacy_to_unicode(ntext)
    /\ nlog' = Append(nlog, "convert_legacy_to_unicode")
    /\ npc' = "patterns2"
    /\ UNCHANGED <<nin, textVars, pdfVars, ocrVars>>

\* lines 298 and 313
StepApplyPatterns ==
    /\ npc = "patterns2"
    /\ ntext' = apply_pattern_conversions(ntext)
    /\ nlog' = Append(nlog, "apply_pattern_conversions")
    /\ npc' = "clean"
    /\ UNCHANGED <<nin, textVars, pdfVars, ocrVars>>

\* step 3: lines 301 and 314
StepCleanArtifacts ==
    /\ npc = "clean"
    /\ ntext' = clean_ocr_artifacts(ntext)
    /\ nlog' = Append(nlog, "clean_ocr_artifacts")
    /\ npc' = "normalize"
    /\ UNCHANGED <<nin, textVars, pdfVars, ocrVars>>

\* step 4: lines 304 and 315
StepNormalizeUnicode ==
    /\ npc = "normalize"
    /\ ntext' = normalize_unicode(ntext)
    /\ nlog' = Append(nlog, "normalize_unicode")
    /\ npc' = "cleanup"
    /\ UNCHANGED <<nin, textVars, pdfVars, ocrVars>>

\* step 5, line 307, with the test of step 6, line 310; and line 316, after
\* which the text is returned
StepFinalCleanup ==
    /\ npc = "cleanup"
    /\ \E t5 \in {FinalCleanup(ntext)} :
        /\ ntext' = t5
        /\ npc' = IF Passes = 0 /\ NeedsForcedConversion(t5) THEN "convert" ELSE "done"
    /\ nlog' = Append(nlog, "final_cleanup")
    /\ UNCHANGED <<nin, textVars, pdfVars, ocrVars>>

NextNorm ==
    \/ ReturnEmptyText
    \/ StepFixOcrErrors
    \/ StepConvertLegacy
    \/ StepApplyPatterns
    \/ StepCleanArtifacts
    \/ StepNormalizeUnicode
    \/ StepFinalCleanup

SpecNorm == InitNorm /\ [][NextNorm]_vars

----------------------------------------------------------------------------
(* modules/ocr_to_word.py: ocr_pdf_to_word and its recognizers *)

\* largest page count of a document handed to ocr_pdf_to_word
MaxOcrPages == 2

\* what a recognizer reads off a page that has text, and off one on which it
\* finds none
RecognizedText == <<Ch.ka, Ch.ga, Ch.sign_i, Ch.space, Ch.ga, Ch.ka>>
BlankText == <<Ch.space, Ch.nl>>

\* the configurations _perform_tesseract_ocr runs pytesseract with, in
\* the order of the code: lines 84-89, 100-105 and 112-119
Ladder == <<"whitelist", "unconstrained", "psm3", "psm4", "psm8">>

\* the timeout each configuration is given, the call having timeout t
ConfigTimeout(config, t) ==
    IF config = "whitelist" THEN t
    ELSE IF config = "unconstrained" THEN t \div 2
    ELSE 15

\* _check_tesseract_kannada: "kan" is among the installed languages; a
\* pytesseract that cannot list them counts as not having it
_check_tesseract_kannada(j) == j.kan

\* vision_page_limit: None, or a limit held in a tuple
None == <<>>

\* use_vision_for_page with a strict comparison
use_vision_for_page_strict(flag, limit, n) ==
    flag /\ (limit = None \/ n < limit[1])

\* use_vision_for_page: lines 349-351
use_vision_for_page(flag, limit, n) ==
    flag /\ (limit = None \/ n <= limit[1])

\* what _perform_google_vision_ocr does with what the service does: the
\* text, TimeoutError for an exception that names a timeout or an exceeded
\* deadline, and "" for any other exception (lines 196-203)
_perform_google_vision_ocr(outcome) ==
    IF outcome = "text" THEN [raises |-> "", text |-> RecognizedText]
    ELSE IF outcome = "blank" THEN [raises |-> "", text |-> BlankText]
    ELSE IF outcome = "timeout" THEN [raises |-> "TimeoutError", text |-> <<>>]
    ELSE [raises |-> "", text |-> <<>>]

\* the budget of the fallback call as the full budget
FallbackTimeout_full(t) == t

\* the budget of the fallback call: ocr_timeout // 2 (lines 365 and 372)
FallbackTimeout(t) == t \div 2

\* the calls of the local backend for the current page
LocalAttempts == SelectSeq(attempts, LAMBDA a : a.backend = "local")
RemoteAttempts == SelectSeq(attempts, LAMBDA a : a.backend = "remote")

\* the timeout of the call of _perform_tesseract_ocr under way: the
\* fallback budget after a remote attempt, ocr_timeout otherwise
LocalTimeout ==
    IF RemoteAttempts # <<>> THEN FallbackTimeout(job.ocr_timeout)
    ELSE job.ocr_timeout

\* what pytesseract can do in a first attempt, and in a retry: without the
\* language data every run fails with an error that names no timeout
FirstOutcomes(j) == IF j.kan THEN {"text", "blank", "timeout", "error"} ELSE {"error"}
RetryOutcomes(j) == IF j.kan THEN {"text", "blank", "fail"} ELSE {"fail"}

\* the ladder stopping after the unconstrained retry
NextConfig_no_psm(config, outcome) ==
    IF outcome = "text" \/ config \in {"unconstrained", "psm8"} THEN "return"
    ELSE IF config = "whitelist" THEN "unconstrained"
    ELSE IF config = "psm3" THEN "psm4"
    ELSE "psm8"

\* the configuration _perform_tesseract_ocr goes on with after a retry
\* step, or "return": a step that found text ends the ladder, a blank or
\* failed one goes to the next configuration
NextConfig(config, outcome) ==
    IF outcome = "text" \/ config = "psm8" THEN "return"
    ELSE IF config = "whitelist" THEN "unconstrained"
    ELSE IF config = "unconstrained" THEN "psm3"
    ELSE IF config = "psm3" THEN "psm4"
    ELSE "psm8"

\* _process_ocr_text (debug_mode False): the processed text, and the issues
\* it reports
_process_ocr_text(t, is_legacy_detected) ==
    IF IsBlank(t) THEN [text |-> <<>>, issues |-> <<>>]
    ELSE LET processed == post_process_kannada_text(t, is_legacy_detected)
             v == validate_kannada_output(processed)
         IN  [text |-> processed, issues |-> v.issues]

LimitsUpTo(n) == {None} \cup {<<l>> : l \in 1..n}

\* app.py lines 94-108: the calls the request handler makes, with
\* vision_page_limit = 20 if use_google else None and ocr_timeout = 60
HandlerJobs ==
    { [use_google |-> g, vision_page_limit |-> IF g THEN <<20>> ELSE None,
       ocr_timeout |-> 60, kan |-> k, client_ok |-> c, convert_ok |-> n > 0,
       total_pages |-> n] :
        g \in BOOLEAN, k \in BOOLEAN, c \in BOOLEAN, n \in 0..MaxOcrPages }

Jobs ==
    [use_google : BOOLEAN, vision_page_limit : LimitsUpTo(MaxOcrPages),
     ocr_timeout : {30, 45}, kan : BOOLEAN, client_ok : BOOLEAN,
     convert_ok : {TRUE}, total_pages : 1..MaxOcrPages]
    \cup
    [use_google : BOOLEAN, vision_page_limit : {None},
     ocr_timeout : {30}, kan : BOOLEAN, client_ok : {TRUE},
     convert_ok : {FALSE}, total_pages : {0}]
    \cup HandlerJobs

\* lines 303-306
NoCounts == [total_pages |-> 0, processed_pages |-> 0, successful_pages |-> 0]

\* line 489: the sentence "no text could be extracted from this document"
NoTextSentence ==
    <<3208, 32, 3238, 3262, 3222, 3250, 3270, 3247, 3263, 3202, 3238, 32,
      3247, 3262, 3253, 3265, 3238, 3271, 32, 3242, 3232, 3277, 3247, 3253,
      3240, 3277, 3240, 3265, 32, 3257, 3274, 3248, 3236, 3270, 3223, 3270,
      3247, 3250, 3262, 3223, 3250, 3263, 3250, 3277, 3250, 46>>

InitOcr ==
    /\ job \in Jobs
    /\ opc = "start"
    /\ use_google = job.use_google
    /\ page_num = 0
    /\ attempts = <<>>
    /\ raw_text = <<>>
    /\ pages = <<>>
    /\ working = {}
    /\ counts = NoCounts
    /\ full_text = <<>>
    /\ flash = "none"
    /\ IdleText /\ IdlePdf /\ IdleNorm

\* lines 282-286: RuntimeError before anything else is done
RaiseConfigurationError ==
    /\ opc = "start"
    /\ ~use_google /\ ~_check_tesseract_kannada(job)
    /\ opc' = "raised"
    /\ UNCHANGED <<job, use_google, page_num, attempts, raw_text, pages,
                   working, counts, full_text, flash,
                   textVars, pdfVars, normVars>>

\* lines 308-337: the pages are rendered and the Vision client is made; a
\* client that cannot be made clears use_google
ConvertPdf ==
    /\ opc = "start"
    /\ use_google \/ _check_tesseract_kannada(job)
    /\ job.convert_ok
    /\ counts' = [counts EXCEPT !.total_pages = job.total_pages]
    /\ use_google' = (use_google /\ job.client_ok)
    /\ page_num' = 1
    /\ opc' = "page"
    /\ UNCHANGED <<job, attempts, raw_text, pages, working, full_text, flash,
                   textVars, pdfVars, normVars>>

\* lines 322-324 and 472-477: convert_from_path fails, the RuntimeError is
\* caught by the outer handler and the document gets an error paragraph
ConvertFailed ==
    /\ opc = "start"
    /\ use_google \/ _check_tesseract_kannada(job)
    /\ ~job.convert_ok
    /\ opc' = "final"
    /\ UNCHANGED <<job, use_google, page_num, attempts, raw_text, pages,
                   working, counts, full_text, flash,
                   textVars, pdfVars, normVars>>

\* lines 339-346: the loop takes the next page and
\* _preprocess_image_for_kannada makes its working image, while the name
\* processed_img still holds what it held
PreprocessImage ==
    /\ opc = "page"
    /\ counts' = [counts EXCEPT !.processed_pages = @ + 1]
    /\ working' = working \cup {page_num}
    /\ opc' = "backend"
    /\ UNCHANGED <<job, use_google, page_num, attempts, raw_text, pages,
                   full_text, flash, textVars, pdfVars, normVars>>

\* lines 346-354: processed_img is bound to the new image and the backend
\* of the page is chosen
SelectBackend ==
    /\ opc = "backend"
    /\ working' = {page_num}
    /\ attempts' = <<>>
    /\ raw_text' = <<>>
    /\ opc' = IF use_vision_for_page(use_google, job.vision_page_limit, page_num)
              THEN "remote" ELSE "local"
    /\ UNCHANGED <<job, use_google, page_num, pages, counts, full_text, flash,
                   textVars, pdfVars, normVars>>

\* lines 356-366: the call of _perform_google_vision_ocr; on TimeoutError
\* the page goes to _perform_tesseract_ocr
RecognizeRemote ==
    /\ opc = "remote"
    /\ \E outcome \in {"text", "blank", "timeout", "error"} :
        LET r == _perform_google_vision_ocr(outcome)
        IN  /\ attempts' = Append(attempts,
                   [backend |-> "remote", config |-> "vision",
                    timeout |-> job.ocr_timeout, outcome |-> outcome])
            /\ raw_text' = r.text
            /\ opc' = IF r.raises = "TimeoutError" THEN "local" ELSE "process"
    /\ UNCHANGED <<job, use_google, page_num, pages, working, counts,
                   full_text, flash, textVars, pdfVars, normVars>>

\* _perform_tesseract_ocr, lines 84-97 and 128-138: the first attempt.  An
\* error that names a timeout leaves as TimeoutError, which only the
\* handler of the page catches; any other error returns ""
TesseractWhitelist ==
    /\ opc = "local"
    /\ \E outcome \in FirstOutcomes(job) :
        /\ attempts' = Append(attempts,
               [backend |-> "local", config |-> "whitelist",
                timeout |-> ConfigTimeout("whitelist", LocalTimeout),
                outcome |-> outcome])
        /\ raw_text' = IF outcome = "text" THEN RecognizedText
                       ELSE IF outcome = "blank" THEN BlankText
                       ELSE <<>>
        /\ opc' = IF outcome = "timeout" THEN "page_error"
                  ELSE IF outcome = "error" THEN "process"
                  ELSE IF NextConfig("whitelist", outcome) = "return" THEN "process"
                  ELSE NextConfig("whitelist", outcome)
    /\ UNCHANGED <<job, use_google, page_num, pages, working, counts,
                   full_text, flash, textVars, pdfVars, normVars>>

\* _perform_tesseract_ocr, lines 97-124: a retry step.  A step that fails
\* leaves text as it was
TesseractRetry ==
    /\ opc \in {"unconstrained", "psm3", "psm4", "psm8"}
    /\ \E outcome \in RetryOutcomes(job) :
        /\ attempts' = Append(attempts,
               [backend |-> "local", config |-> opc,
                timeout |-> ConfigTimeout(opc, LocalTimeout),
                outcome |-> outcome])
        /\ raw_text' = IF outcome = "text" THEN RecognizedText
                       ELSE IF outcome = "blank" THEN BlankText
                       ELSE raw_text
        /\ opc' = IF NextConfig(opc, outcome) = "return" THEN "process"
                  ELSE NextConfig(opc, outcome)
    /\ UNCHANGED <<job, use_google, page_num, pages, working, counts,
                   full_text, flash, textVars, pdfVars, normVars>>

\* the backend whose text the page has
BackendUsed == attempts[Len(attempts)].backend

\* the page after this one, or the end of the loop
AfterPage ==
    /\ opc' = IF page_num < job.total_pages THEN "page" ELSE "final"
    /\ page_num' = IF page_num < job.total_pages THEN page_num + 1 ELSE page_num

\* lines 385-450: the text is processed and the page is written to the
\* document, with its text or with the no-text paragraph; a page with text
\* is added to full_text and counted; the images of the page are deleted
ProcessPage ==
    /\ opc = "process"
    /\ LET is_legacy == detect_legacy_encoding(raw_text)
           p == _process_ocr_text(raw_text, is_legacy)
       IN  /\ pages' = Append(pages,
                  [page_number |-> page_num, backend_used |-> BackendUsed,
                   page_text |-> raw_text, is_legacy_detected |-> is_legacy,
                   cleaned_text |-> p.text, validation_issues |-> p.issues,
                   recorded |-> IF IsBlank(p.text) THEN "no_text" ELSE "text"])
           /\ full_text' = IF IsBlank(p.text) THEN full_text
                           ELSE full_text \o p.text \o <<Ch.nl, Ch.nl>>
           /\ counts' = IF IsBlank(p.text) THEN counts
                        ELSE [counts EXCEPT !.successful_pages = @ + 1]
    /\ working' = {}
    /\ AfterPage
    /\ UNCHANGED <<job, use_google, attempts, raw_text, flash,
                   textVars, pdfVars, normVars>>

\* lines 452-466: the handler of the page writes an error paragraph and the
\* loop goes on; the cleanup of lines 448-450 is not reached
PageError ==
    /\ opc = "page_error"
    /\ pages' = Append(pages,
           [page_number |-> page_num, backend_used |-> BackendUsed,
            page_text |-> <<>>, is_legacy_detected |-> FALSE,
            cleaned_text |-> <<>>, validation_issues |-> <<>>,
            recorded |-> "error"])
    /\ AfterPage
    /\ UNCHANGED <<job, use_google, attempts, raw_text, working, counts,
                   full_text, flash, textVars, pdfVars, normVars>>

\* lines 479-516: full_text is normalized, or replaced by the sentence of
\* line 489 when it is blank; the document and the text file are saved
Finish ==
    /\ opc = "final"
    /\ full_text' = IF ~IsBlank(full_text) THEN normalize_unicode(full_text)
                    ELSE NoTextSentence
    /\ opc' = "done"
    /\ UNCHANGED <<job, use_google, page_num, attempts, raw_text, pages,
                   working, counts, flash, textVars, pdfVars, normVars>>

\* app.py lines 115-120: what the handler flashes for the text it reads
\* back from the text file
OcrResultMessage(extracted_text) ==
    IF IsBlank(extracted_text) THEN "warning_no_text"
    ELSE IF ~is_kannada_text(extracted_text) THEN "warning_no_kannada"
    ELSE "success"

\* app.py lines 110-123: the handler reads the text file of the call it
\* made and flashes a message
ValidateOcrResults ==
    /\ opc = "done"
    /\ job \in HandlerJobs
    /\ flash' = OcrResultMessage(full_text)
    /\ opc' = "responded"
    /\ UNCHANGED <<job, use_google, page_num, attempts, raw_text, pages,
                   working, counts, full_text, textVars, pdfVars, normVars>>

\* app.py lines 174-178: the RuntimeError of the call reaches the handler,
\* which renders the error page
RenderError ==
    /\ opc = "raised"
    /\ job \in HandlerJobs
    /\ flash' = "error_page"
    /\ opc' = "responded"
    /\ UNCHANGED <<job, use_google, page_num, attempts, raw_text, pages,
                   working, counts, full_text, textVars, pdfVars, normVars>>

NextOcr ==
    \/ RaiseConfigurationError
    \/ ConvertPdf
    \/ ConvertFailed
    \/ PreprocessImage
    \/ SelectBackend
    \/ RecognizeRemote
    \/ TesseractWhitelist
    \/ TesseractRetry
    \/ ProcessPage
    \/ PageError
    \/ Finish
    \/ ValidateOcrResults
    \/ RenderError

SpecOcr == InitOcr /\ [][NextOcr]_vars

----------------------------------------------------------------------------
(* Properties of the exact substitution (specification SpecSubst) *)

\* k occurs in l and is shorter
ProperSubstring(k, l) == Len(k) < Len(l) /\ Contains(l, k)

\* the keys of the rules applied so far, in the order of their application
AppliedKeys == [p \in 1..Len(nlog) |-> RulesOf(nin.fn)[nlog[p]][1]]

\* C11: convert_legacy_to_unicode and fix_ocr_errors try the rules in
\* non-increasing key length: the keys applied so far never get longer, and
\* every key that properly contains an applied key had its turn before it.
C11_LongestKeyFirst ==
    npc # "idle" =>
        /\ \A p, q \in 1..Len(nlog) :
               p < q => Len(AppliedKeys[p]) >= Len(AppliedKeys[q])
        /\ \A p \in 1..Len(nlog) : \A b \in 1..Len(RulesOf(nin.fn)) :
               ProperSubstring(AppliedKeys[p], RulesOf(nin.fn)[b][1]) => b < nlog[p]

\* a call that applied a key and later a proper substring of that key
C11_Witness ==
    /\ npc = "done"
    /\ \E p, q \in 1..Len(nlog) :
           p < q /\ ProperSubstring(AppliedKeys[q], AppliedKeys[p])

Reverse(s) == [i \in 1..Len(s) |-> s[Len(s) + 1 - i]]

\* another longest-key-first order of the legacy table: the keys of one
\* length in the reverse of the table's order
LegacyRulesReversed == SortedByKeyLength(Reverse(LEGACY_TO_UNICODE))

\* C12: the result of the exact substitution is the same for every
\* longest-key-first order: the text the loop of convert_legacy_to_unicode
\* leaves is the text the loop leaves when keys of equal length swap places.
C12_OrderIndependent ==
    npc = "patterns" => ntext = ApplyRules(nin.text, LegacyRulesReversed)

\* the value the legacy table holds for key k
ValueOf(k) ==
    LET i == CHOOSE j \in 1..Len(LEGACY_TO_UNICODE) : LEGACY_TO_UNICODE[j][1] = k
    IN  LEGACY_TO_UNICODE[i][2]

\* the values of the keys ks, in the same order
ValueText(ks) == Flatten([i \in 1..Len(ks) |-> ValueOf(SubstKeys[ks[i]])])

\* the position of the last character of each key of ks but the last
BoundariesOf(ks) ==
    {Len(KeyText(SubSeq(ks, 1, n))) : n \in 1..(Len(ks) - 1)}

\* some key of the legacy table occurs in the text across a boundary
\* between two adjacent keys of ks
KeySpansBoundary(ks) ==
    LET t == KeyText(ks)
    IN  \E j \in 1..Len(LEGACY_TO_UNICODE) :
            LET k == LEGACY_TO_UNICODE[j][1]
            IN  \E p \in 1..(Len(t) - Len(k) + 1) :
                    /\ SubSeq(t, p, p + Len(k) - 1) = k
                    /\ \E b \in BoundariesOf(ks) : p <= b /\ b < p + Len(k) - 1

ConvertReturned == npc = "done" /\ nin.fn = "convert_legacy_to_unicode"

\* the call returned the values of its keys, and the pattern rules leave
\* them as they are
ReturnsValues ==
    /\ ntext = ValueText(nin.keys)
    /\ apply_pattern_conversions(ntext) = ntext

\* C13 as stated: for a text that is a row of table keys with no key
\* spanning a boundary, convert_legacy_to_unicode returns the row of the
\* values, and the pattern rules leave it unchanged.
C13_Original ==
    ConvertReturned /\ ~KeySpansBoundary(nin.keys) => ReturnsValues

\* the keys are the four tested keys, and no value U+0C86 stands between two
\* of the consonant values U+0CA8, U+0CA1
TestedKeysNoVowelBetween ==
    /\ \A i \in 1..Len(nin.keys) : nin.keys[i] \in 1..4
    /\ ~\E i \in 2..(Len(nin.keys) - 1) :
           nin.keys[i] = 4 /\ nin.keys[i - 1] \in {2, 3} /\ nin.keys[i + 1] \in {2, 3}

\* C13, amended: for a text that is a row of the four tested keys in which
\* the key of U+0C86 never stands between two keys of consonants,
\* convert_legacy_to_unicode returns the row of the values, and the pattern
\* rules leave it unchanged.
C13_TestedKeys ==
    ConvertReturned /\ TestedKeysNoVowelBetween => ReturnsValues

\* the tested case has been converted
C13_Witness ==
    /\ ConvertReturned /\ nin.keys = TestedCase
    /\ ntext = <<3205, 3240, 3233, 3206>>

----------------------------------------------------------------------------
(* Properties of ocr_pdf_to_word *)

\* the states in which a page is being recognized or written
InPage ==
    opc \in {"remote", "local", "unconstrained", "psm3", "psm4", "psm8",
             "process", "page_error"}

\* the backend the page was given to first
FirstBackend == IF attempts = <<>> THEN opc ELSE attempts[1].backend

\* C14: a page is given to the remote backend exactly when the use-remote
\* flag is set and either no page limit is configured or the 1-based page
\* number is at most the limit; every other page is given to the local one
C14_RemoteIffFlagAndLimit ==
    InPage =>
        /\ FirstBackend \in {"remote", "local"}
        /\ FirstBackend = "remote" <=>
               /\ use_google
               /\ \/ job.vision_page_limit = None
                  \/ page_num <= job.vision_page_limit[1]

\* a page beyond the limit goes to the local backend after a page within
\* the limit went to the remote one
C14_Witness ==
    /\ InPage /\ use_google
    /\ job.vision_page_limit # None
    /\ page_num > job.vision_page_limit[1]
    /\ FirstBackend = "local"
    /\ \E i \in 1..Len(pages) : pages[i].backend_used = "remote"

\* the remote backend raised TimeoutError on the current page
RemoteTimedOut ==
    \E i \in 1..Len(attempts) :
        attempts[i].backend = "remote" /\ attempts[i].outcome = "timeout"

\* the calls of _perform_tesseract_ocr for the current page: each starts
\* with the whitelist configuration
LocalCalls == SelectSeq(attempts, LAMBDA a : a.config = "whitelist")

\* what a call of _perform_tesseract_ocr returns after the attempts of log:
\* the text of the last attempt that read one, "" if none did
TesseractResult(log) ==
    LET read == SelectSeq(log, LAMBDA a : a.outcome \in {"text", "blank"})
    IN  IF read = <<>> THEN <<>>
        ELSE IF read[Len(read)].outcome = "text" THEN RecognizedText
        ELSE BlankText

\* the page that was written last
LastPage == pages[Len(pages)]

\* C15: after a timeout of the remote backend the page gets one call of the
\* local backend, with half the timeout budget; the text of the page is
\* what that call returns; the page is written and the loop goes on, also
\* when the fallback call times out; nothing is raised to the caller
C15_TimeoutFallsBack ==
    /\ [](InPage /\ RemoteTimedOut =>
            /\ Len(LocalCalls) = (IF opc = "local" THEN 0 ELSE 1)
            /\ \A i \in 1..Len(LocalCalls) :
                   LocalCalls[i].timeout = job.ocr_timeout \div 2
            /\ opc = "process" =>
                   /\ BackendUsed = "local"
                   /\ raw_text = TesseractResult(LocalAttempts))
    /\ [](opc = "raised" => page_num = 0 /\ pages = <<>>)
    /\ [][InPage /\ RemoteTimedOut /\ opc \in {"process", "page_error"} =>
            /\ opc' = (IF page_num < job.total_pages THEN "page" ELSE "final")
            /\ page_num' = (IF page_num < job.total_pages THEN page_num + 1 ELSE page_num)
            /\ Len(pages') = Len(pages) + 1
            /\ pages'[Len(pages')].page_number = page_num
            /\ pages'[Len(pages')].backend_used = "local"
            /\ opc = "process" => pages'[Len(pages')].page_text = raw_text]_vars

\* a page whose remote call timed out has been written with the text of the
\* fallback call, which had the floor of half an odd budget, and the next
\* page is under way
C15_Witness ==
    /\ opc = "page" /\ RemoteTimedOut
    /\ job.ocr_timeout = 45
    /\ LocalCalls[1].timeout = 22
    /\ LastPage.backend_used = "local"
    /\ LastPage.page_text = RecognizedText
    /\ LastPage.recorded = "text"

\* the remote backend failed on the current page with an error that names
\* no timeout: a network, authentication or API error
RemoteFailed ==
    \E i \in 1..Len(attempts) :
        attempts[i].backend = "remote" /\ attempts[i].outcome = "error"

\* C16: a failure of the remote backend that is no timeout is recovered as
\* a timeout is: the page gets the one fallback call of the local backend
\* and is not left without text for want of it
C16_GenericFailureFallsBack ==
    InPage /\ RemoteFailed =>
        /\ Len(LocalCalls) = (IF opc = "local" THEN 0 ELSE 1)
        /\ opc = "process" => BackendUsed = "local"

\* C17: the local backend runs its configurations in the order whitelist,
\* unconstrained, PSM 3, PSM 4, PSM 8; a configuration is run only after
\* every earlier one came out blank (a retry that failed counts as blank and
\* is not raised); the first text that is not blank is returned and ends
\* the ladder; a page still blank has been through all of them
C17_LadderInOrder ==
    LET L == LocalAttempts
        n == Len(LocalAttempts)
    IN  /\ n <= Len(Ladder)
        /\ \A i \in 1..n : L[i].config = Ladder[i]
        /\ \A i \in 1..(n - 1) :
               IF i = 1 THEN L[i].outcome = "blank"
               ELSE L[i].outcome \in {"blank", "fail"}
        /\ (opc \in {"unconstrained", "psm3", "psm4", "psm8"}) =>
               /\ n >= 1 /\ Ladder[n + 1] = opc
               /\ L[n].outcome \in {"blank", "fail"}
        /\ (opc = "process" /\ n >= 1) =>
               \/ L[n].outcome = "text" /\ raw_text = RecognizedText
               \/ n = 1 /\ L[1].outcome = "error" /\ raw_text = <<>>
               \/ n = Len(Ladder) /\ L[n].outcome \in {"blank", "fail"}
                     /\ raw_text = BlankText
        /\ (opc = "page_error") =>
               n = 1 /\ L[1].outcome = "timeout"

\* PSM 4 read a text after the whitelist came out blank, the unconstrained
\* retry failed and PSM 3 came out blank: PSM 8 is not run
C17_Witness ==
    /\ opc = "process"
    /\ Len(LocalAttempts) = 4
    /\ LocalAttempts[1].outcome = "blank"
    /\ LocalAttempts[2].outcome = "fail"
    /\ LocalAttempts[3].outcome = "blank"
    /\ LocalAttempts[4].config = "psm4"
    /\ LocalAttempts[4].outcome = "text"
    /\ raw_text = RecognizedText

\* C18: a page on which every fallback came out without text is written
\* with cleaned_text "" and the validation issue "Empty or whitespace-only
\* text", and the loop goes on with the next page
C18_BlankPageRecorded ==
    \A i \in 1..Len(pages) :
        (pages[i].recorded # "error" /\ IsBlank(pages[i].page_text)) =>
            /\ pages[i].cleaned_text = <<>>
            /\ \E k \in 1..Len(pages[i].validation_issues) :
                   pages[i].validation_issues[k] = "Empty or whitespace-only text"
            /\ (opc = "done" /\ job.convert_ok) => Len(pages) = job.total_pages

\* C19: without the language data of the local recognizer the call ends in
\* a configuration error before any page is processed, whatever use_google
\* and vision_page_limit are: no page is handed to a local backend that
\* lacks the data
C19_NoPageWithoutLanguageData ==
    ~_check_tesseract_kannada(job) =>
        /\ opc \in {"start", "raised"}
        /\ page_num = 0
        /\ LocalAttempts = <<>>

----------------------------------------------------------------------------
(* Properties of post_process_kannada_text *)

\* s is the beginning of t
IsPrefix(s, t) == Len(s) <= Len(t) /\ SubSeq(t, 1, Len(s)) = s

\* the stages of the first pass, with and without the conversion of step 2
FirstPass(converted) ==
    <<"fix_ocr_errors">>
    \o (IF converted
        THEN <<"convert_legacy_to_unicode", "apply_pattern_conversions">>
        ELSE <<>>)
    \o <<"clean_ocr_artifacts", "normalize_unicode", "final_cleanup">>

\* the stages of the forced pass of step 6
ForcedPass ==
    <<"convert_legacy_to_unicode", "apply_pattern_conversions",
      "clean_ocr_artifacts", "normalize_unicode", "final_cleanup">>

\* C20: on a text that is not empty post_process_kannada_text runs the OCR
\* corrections, then the substitution table followed by the pattern rules
\* exactly when the hint is set or the detector finds the corrected text
\* legacy, then the artifact stripping, then the Unicode normalization; no
\* stage of this first pass is left out or moved, and the table is not
\* applied in it when neither hint nor detector says legacy
C20_FixedStageOrder ==
    nin.text # <<>> =>
        LET converted == nin.is_legacy
                           \/ detect_legacy_encoding(fix_ocr_errors(nin.text))
            first == FirstPass(converted)
        IN  /\ IsPrefix(nlog, first \o ForcedPass)
            /\ npc = "done" => nlog \in {first, first \o ForcedPass}

\* the call has returned after a first pass with the conversion, which the
\* detector asked for and the hint did not
C20_Witness ==
    /\ npc = "done"
    /\ ~nin.is_legacy
    /\ nlog = FirstPass(TRUE)
    /\ ntext # <<>>

\* the first pass has just ended: ntext is its result
FirstPassEnded == Passes = 1 /\ nlog[Len(nlog)] = "final_cleanup"

\* C21 as stated: after the first pass the forced pass runs exactly when
\* the result is still not Kannada and the text handed to the call is
\* longer than 10
C21_Original ==
    FirstPassEnded =>
        (npc = "convert" <=> ~is_kannada_text(ntext) /\ Len(nin.text) > 10)

\* C21: after the first pass the forced pass runs exactly when the result
\* of the first pass is still not Kannada and that result is longer than
\* 10; the forced pass runs at most once in a call
C21_ForcedRerun ==
    /\ FirstPassEnded =>
           (npc = "convert" <=> ~is_kannada_text(ntext) /\ Len(ntext) > 10)
    /\ Passes <= 2
    /\ (Passes = 2 /\ nlog[Len(nlog)] = "final_cleanup") => npc = "done"
    /\ npc = "done" /\ nin.text # <<>> =>
           Len(SelectSeq(nlog, LAMBDA s : s = "fix_ocr_errors")) = 1

\* the forced pass has run and the call has returned
C21_Witness ==
    /\ npc = "done"
    /\ Passes = 2
    /\ ~nin.is_legacy
    /\ Len(ntext) > 10

----------------------------------------------------------------------------
(* Properties of detect_legacy_encoding (specification SpecDetect) *)

\* the characters of t that count for the script ratio, and those of them
\* that are Kannada
RatioBase(t) == {i \in 1..Len(t) : ~IsSpace(t[i]) /\ ~IsSkippedPunct(t[i])}
RatioKannada(t) == {i \in RatioBase(t) : InKannadaRanges(t[i])}

\* the script ratio of t is above 0.2
SufficientScript(t) ==
    RatioBase(t) # {} /\ 5 * Cardinality(RatioKannada(t)) > Cardinality(RatioBase(t))

\* t holds more than 20 characters that are not whitespace, more than 0.7
\* of them outside ASCII and less than 0.2 of them Kannada letters
MostlyForeign(t) ==
    LET base == {i \in 1..Len(t) : ~IsSpace(t[i])}
    IN  /\ Cardinality(base) > 20
        /\ 10 * Cardinality({i \in base : t[i] > 127}) > 7 * Cardinality(base)
        /\ 5 * Cardinality({i \in base : IsKannadaLetterClass(t[i])}) < Cardinality(base)

\* the detection policy
LegacyPolicy(t) ==
    IF SufficientScript(t) /\ HasKannadaWords(t) THEN FALSE
    ELSE \/ CountPresent(t, strong_legacy_indicators) >= 2
         \/ CountPresent(t, ocr_artifacts) >= 3 /\ ~SufficientScript(t)
         \/ MostlyForeign(t)

\* three or more artifact sequences and a script ratio of 0.05
ScenarioC(t) ==
    /\ CountPresent(t, ocr_artifacts) >= 3
    /\ RatioBase(t) # {}
    /\ 20 * Cardinality(RatioKannada(t)) = Cardinality(RatioBase(t))

\* C22: detect_legacy_encoding returns False for a text with a script ratio
\* above 0.2 and more than MinKannadaWords Kannada words, markers or not;
\* otherwise it returns True exactly when the text holds at least 2 strong
\* indicators, or at least 3 artifact sequences with a script ratio not
\* above 0.2, or more than 20 non-space characters with more than 0.7 of
\* them non-ASCII and less than 0.2 Kannada letters.  A text with three
\* artifact sequences and a script ratio of 0.05 is legacy.
C22_DetectionPolicy ==
    tpc = "detected" =>
        /\ tout.legacy = LegacyPolicy(text)
        /\ ScenarioC(text) => tout.legacy

\* a text with three artifact sequences and script ratio 0.05, and no other
\* ground, has been declared legacy
C22_Witness ==
    /\ tpc = "detected"
    /\ ScenarioC(text)
    /\ CountPresent(text, strong_legacy_indicators) = 0
    /\ ~MostlyForeign(text)
    /\ tout.legacy

----------------------------------------------------------------------------
(* Properties of _get_sample_page_indices (specification SpecSample) *)

SampleDone == sampler.pc = "done"

\* C23: the sampler returns at most max_sample_pages indices, distinct,
\* sorted and within 0..N-1; for N above max_sample_pages they hold the
\* first page, the last page and the middle page N div 2, and every other
\* one is a multiple of the even step N div 3
C23_SampleIndices ==
    SampleDone =>
        LET n == sampler.total_pages
            ix == sampler.indices
        IN  /\ Len(ix) <= max_sample_pages
            /\ \A k \in 1..Len(ix) : ix[k] \in 0..(n - 1)
            /\ \A k \in 1..(Len(ix) - 1) : ix[k] < ix[k + 1]
            /\ n > max_sample_pages =>
                   /\ \A must \in {0, n - 1, n \div 2} :
                          \E k \in 1..Len(ix) : ix[k] = must
                   /\ \A k \in 1..Len(ix) :
                          ix[k] \in {0, n - 1, n \div 2, n \div 3, 2 * (n \div 3)}
                   /\ Len(ix) >= 4
            /\ n <= max_sample_pages => Len(ix) = n

\* the sampler has returned five indices of a document of 9 pages
C23_Witness ==
    /\ SampleDone
    /\ sampler.total_pages = 9
    /\ sampler.indices = <<0, 3, 4, 6, 8>>

----------------------------------------------------------------------------
(* Properties of the extraction cascade (specification Spec) *)

\* the aggregate text after method 1 and after method 2, from the document
AggregateAfter1 ==
    LET r == ExtractWith(doc, "pymupdf", SampledIndices(doc)).text
    IN  IF IsBlank(r) THEN <<>> ELSE r

AggregateAfter2 ==
    LET r == ExtractWith(doc, "pdfplumber", SampledIndices(doc)).text
    IN  IF Len(AggregateAfter1) < 100 /\ ~IsBlank(r)
        THEN AggregateAfter1 \o <<Ch.nl>> \o r
        ELSE AggregateAfter1

----------------------------------------------------------------------------
(* Properties of the page counts of analyze_pdf (specification Spec) *)

\* C29: the total page count reported in the analysis is the count used to
\* choose the sampled pages and to compute the page coverage, also when the
\* primary parser fails and the secondary one succeeds
C29_OnePageCount ==
    Classified =>
        /\ analysis.total_pages = text_results.total_pages
        /\ text_results.sampled_pages
               = Len(_get_sample_page_indices(
                        analysis.total_pages,
                        Min(max_sample_pages, analysis.total_pages)))

----------------------------------------------------------------------------
(* Properties of the page coverage (specification Spec) *)

\* C26: a document with a text layer of quality below 0.3 in which every
\* sampled page yields text is classified hybrid with confidence 0.7,
\* whatever its total page count
C26_CoverageOfSampledPages ==
    Classified /\ analysis.has_text_layer
               /\ analysis.text_quality_score < min_quality_score
               /\ analysis.pages_with_text = text_results.sampled_pages =>
        /\ analysis.pdf_type = "hybrid"
        /\ analysis.confidence = 7

----------------------------------------------------------------------------
(* Properties of the page loop and of the transcript (specification SpecOcr) *)

\* the pages are recorded once each, in ascending order
PagesInOrder == \A k \in 1..Len(pages) : pages[k].page_number = k

\* C25: pages are processed one at a time in page order and at most one
\* working image exists at any time, the one of page k being released before
\* the one of page k+1 is made
C25_OneWorkingImage ==
    /\ PagesInOrder
    /\ Cardinality(working) <= 1

\* the call made by the request handler went through the pages of the
\* document and has been answered
Responded == opc = "responded" /\ flash # "error_page" /\ Len(pages) > 0

\* C27: when no page yielded text the handler flashes the warning that no
\* text was extracted and never the success message; the success message
\* needs a page whose text reached the transcript
C27_NoTextNeverSuccess ==
    Responded =>
        /\ counts.successful_pages = 0 => flash = "warning_no_text"
        /\ flash = "success" => \E k \in 1..Len(pages) : pages[k].recorded = "text"

\* the cleaned texts of the pages recorded with text, in page order, each
\* followed by the two newlines of line 430
SuccessfulTexts ==
    Flatten([k \in 1..Len(pages) |->
                IF pages[k].recorded = "text"
                THEN pages[k].cleaned_text \o <<Ch.nl, Ch.nl>> ELSE <<>>])

\* C28: every page is visited once in ascending order,
\* successful_pages <= processed_pages <= total_pages at every step with
\* processed_pages = total_pages at the end, and the transcript is the
\* concatenation in page order of the cleaned text of exactly the pages
\* counted as successful
C28_CountersAndTranscript ==
    /\ PagesInOrder
    /\ counts.successful_pages <= counts.processed_pages
    /\ counts.processed_pages <= counts.total_pages
    /\ counts.successful_pages
          = Cardinality({k \in 1..Len(pages) : pages[k].recorded = "text"})
    /\ opc \in {"final", "done", "responded"} =>
          /\ counts.processed_pages = counts.total_pages
          /\ Len(pages) = counts.total_pages
    /\ opc \in {"done", "responded"} /\ Len(pages) > 0 =>
          full_text = SuccessfulTexts

====
